---- MODULE Spec2Model ----
(***************************************************************************)
(* Canvas MCP server: the HTTP access layer.                               *)
(*                                                                         *)
(* One CanvasClient.getAll call (process 0) runs against one auth          *)
(* strategy (PersonalAccessTokenAuth or OAuthTokenAuth) that it shares     *)
(* with other concurrent strategy users (processes 1..NumUsers, the        *)
(* getAuthorizationHeader / handleUnauthorized calls of other tool         *)
(* invocations).  The JavaScript event loop is modelled as it runs: an     *)
(* action is the synchronous code between two awaits; continuations of a   *)
(* settled promise (the set ready) run before any timer, network event or  *)
(* new call, and the continuation that created the promise runs first.     *)
(***************************************************************************)
EXTENDS Integers, Sequences, FiniteSets, TLC

VARIABLES
  kind,      \* which CanvasAuthStrategy createAuthStrategy built: "pat" | "oauth"
  auth,      \* OAuthTokenAuth fields: accessToken, refreshToken, tokenExpiresAt, refreshing
  exch,      \* per initiating process: the promise of its performRefresh call
  awaiting,  \* per process: the refresh promise (named by its initiator) it awaits
  ready,     \* processes whose awaited promise settled and that have not resumed yet
  resume,    \* per process: how the awaited promise settled ("ok" | "err")
  pc,        \* per process: the await it is suspended at
  handed,    \* the credential getAuthorizationHeader returned in the step just taken
  tokMeta,   \* when the cached access token was obtained and the lifetime reported for it
  issued,    \* number of access tokens issued so far (token ids are 1..issued)
  now,       \* Date.now() in ms
  cl,        \* locals of getAll / fetchWithRetry of process 0, and the state of
             \* the AbortSignal passed in options.signal
  out,       \* what getAll returned or threw
  gh,        \* history of the getAll call: the physical requests of the current page
             \* (their number, the statuses seen, the access token that was cached
             \* when a token exchange awaited for this page was rejected) and the
             \* pages served so far (their records, their x-request-id and the
             \* URL of the rel="next" part of their link header)
  up,        \* the list_upcoming handler: the await it is suspended at, its locals
             \* (now, rangeEnd, upcomingMap, the courses still to fetch), what it
             \* returned or threw, and the feed it merged last (forgotten when
             \* the handler goes on to await the assignments of a course)
  runs,      \* two runs of the list_upcoming handler that are fed the same
             \* upstream collections
  lc,        \* the list_courses handler: its arguments, the mapped courses and
             \* what the handler returned
  srv,       \* the HTTP server: the sessions map, the request handled last and
             \* the response it got
  tz         \* core/timezone.ts and the mappers: the configured time zone and the
             \* record mapped last

toolVars == <<runs, lc, srv, tz>>

clientVars == <<kind, auth, exch, awaiting, ready, resume, pc, handed, tokMeta, issued, now, cl, out, gh>>

vars == <<kind, auth, exch, awaiting, ready, resume, pc, handed, tokMeta, issued, now, cl, out, gh, up,
          runs, lc, srv, tz>>

----------------------------------------------------------------------------
(* Bounds of the model *)

NumUsers == 1        \* concurrent strategy users besides the getAll call
MaxPages == 2        \* pages the upstream serves for one collection
MaxTokens == 3       \* access tokens the token endpoint issues (after that it rejects)
MaxTicks == 3        \* clock ticks
TickMs == 30000      \* length of one clock tick in ms
StartNow == 1000000  \* Date.now() at construction
MaxFeed == 2         \* items in one to-do feed or one assignment feed
MaxIds == 2          \* distinct assignment ids
MaxCourses == 2      \* active courses
MaxCourseList == 3   \* courses /users/self/courses returns to list_courses
MaxSessions == 2     \* SSE transports created
MaxRequests == 3     \* requests to /mcp and /messages

(* Program constants *)

DEFAULT_MAX_RETRIES == 3     \* options.maxRetries ?? 3
REFRESH_MARGIN_MS == 60000   \* tokenExpiresAt - 60_000
EXPIRY_SKEW_SEC == 60        \* payload.expires_in - 60
BACKOFF_BASE_MS == 500       \* 500 * Math.pow(2, attempt)
BACKOFF_CAP_MS == 5000       \* Math.min(5000, jitter)
REFRESH_FAIL_SLEEP_MS == 300 \* sleep(300)
DEFAULT_RANGE_DAYS == 7      \* args.days ?? 7
DEFAULT_COURSE_LIMIT == 20   \* args.limit ?? DEFAULT_COURSE_LIMIT
DAY_MS == 86400000           \* 24 * 60 * 60 * 1000

Client == 0
Procs == 0..NumUsers
Users == 1..NumUsers

NULL == -1       \* null / undefined of a number-valued slot
NoProc == -1     \* refreshing === null
NoToken == 0     \* undefined or empty token string
PatToken == 100  \* the configured personal access token
NoRid == 0       \* response without x-request-id header (or an empty one)

Lifetimes == {30, 90, 180}     \* expires_in values (seconds) the token endpoint reports
NoLifetime == 0                \* expires_in absent
RefreshTokens == {1, 2}        \* refresh tokens: the configured one and a rotated one
Jitters == {0, 500, 998}       \* Math.random() samples in 1/1000
Statuses == {200, 400, 401, 403, 404, 429, 503}
\* non-success statuses for the classification of errors
ErrorStatuses == {400, 401, 402, 403, 404, 409, 422, 429, 500, 502, 503, 599}
PageBodies == {<<1>>, <<2, 1>>}        \* record arrays a page can carry

Truthy(x) == x # 0 /\ x # NULL

Min(a, b) == IF a < b THEN a ELSE b
Max(a, b) == IF a > b THEN a ELSE b

RECURSIVE Pow2(_)
Pow2(n) == IF n = 0 THEN 1 ELSE 2 * Pow2(n - 1)

RECURSIVE Concat(_)
Concat(ss) == IF ss = <<>> THEN <<>> ELSE Head(ss) \o Concat(Tail(ss))

----------------------------------------------------------------------------
(* core/errors.ts *)

STATUS_TO_CODE_Without403(status) ==
  CASE status = 400 -> "BAD_REQUEST"
    [] status = 401 -> "AUTHORIZATION_FAILED"
    [] status = 404 -> "NOT_FOUND"
    [] status = 429 -> "RATE_LIMITED"
    [] OTHER -> "none"

STATUS_TO_CODE(status) ==
  CASE status = 400 -> "BAD_REQUEST"
    [] status = 401 -> "AUTHORIZATION_FAILED"
    [] status = 403 -> "AUTHORIZATION_FAILED"
    [] status = 404 -> "NOT_FOUND"
    [] status = 429 -> "RATE_LIMITED"
    [] OTHER -> "none"

STATUS_TO_MESSAGE(status) ==
  CASE status = 400 -> "Invalid request sent to Canvas."
    [] status = 401 -> "Authorization failed: check Canvas token/scopes."
    [] status = 403 -> "Authorization failed: check Canvas token/scopes."
    [] status = 404 -> "Not found: course or assignment id."
    [] status = 429 -> "Rate limited by Canvas; retry later."
    [] OTHER -> "none"

\* An AppError; app = FALSE is a plain Error (no code, no data).
AppError(code, message, httpStatus, requestId, canvasStatus) ==
  [t |-> "err", app |-> TRUE, code |-> code, message |-> message,
   httpStatus |-> httpStatus, requestId |-> requestId, canvasStatus |-> canvasStatus,
   data |-> <<>>, requestIds |-> <<>>, status |-> NULL]

PlainError(message) ==
  [t |-> "err", app |-> FALSE, code |-> "none", message |-> message,
   httpStatus |-> NULL, requestId |-> NoRid, canvasStatus |-> NULL,
   data |-> <<>>, requestIds |-> <<>>, status |-> NULL]

canvasErrorDefaultUnknown(status, requestId, fallbackMessage) ==
  LET code == IF STATUS_TO_CODE(status) # "none" THEN STATUS_TO_CODE(status)
              ELSE "UNKNOWN"
      httpStatus == IF status >= 500 THEN 503 ELSE status
      message == IF STATUS_TO_MESSAGE(status) # "none" THEN STATUS_TO_MESSAGE(status)
                 ELSE "Canvas temporarily unavailable."
  IN AppError(code, IF fallbackMessage # "none" THEN fallbackMessage ELSE message,
              httpStatus, requestId, status)

\* fallbackMessage = "none" stands for undefined.
canvasError(status, requestId, fallbackMessage) ==
  LET code == IF STATUS_TO_CODE(status) # "none" THEN STATUS_TO_CODE(status)
              ELSE "CANVAS_UNAVAILABLE"
      httpStatus == IF status >= 500 \/ code = "CANVAS_UNAVAILABLE" THEN 503 ELSE status
      message == IF STATUS_TO_MESSAGE(status) # "none" THEN STATUS_TO_MESSAGE(status)
                 ELSE "Canvas temporarily unavailable."
  IN AppError(code, IF fallbackMessage # "none" THEN fallbackMessage ELSE message,
              httpStatus, requestId, status)

unknownError(message) == AppError("UNKNOWN", message, 500, NoRid, NULL)

----------------------------------------------------------------------------
(* canvas/client.ts: pure helpers *)

shouldRetryClientErrors(status) == status >= 400 /\ status < 600

shouldRetry(status) == status = 429 \/ (status >= 500 /\ status < 600)

\* A retry-after header: [k |-> "none"], [k |-> "sec", v |-> seconds],
\* [k |-> "date", v |-> instant in ms] or [k |-> "junk"].
RetryAfterNone == [k |-> "none", v |-> 0]

parseRetryAfter(header) ==
  CASE header.k = "none" -> [isNull |-> TRUE, ms |-> 0]
    [] header.k = "sec" -> [isNull |-> FALSE, ms |-> header.v * 1000]
    [] header.k = "date" -> [isNull |-> FALSE, ms |-> IF header.v - now > 0 THEN header.v - now ELSE 0]
    [] OTHER -> [isNull |-> TRUE, ms |-> 0]

retryDelayCapped(attempt, retryAfter, rand) ==
  LET parsedRetryAfter == parseRetryAfter(retryAfter)
      base == BACKOFF_BASE_MS * Pow2(attempt)
      jitter == (base * (500 + rand)) \div 1000
  IN IF ~parsedRetryAfter.isNull THEN Min(BACKOFF_CAP_MS, parsedRetryAfter.ms)
     ELSE Min(BACKOFF_CAP_MS, jitter)

backoffJitterNoFloor(base, rand) == (base * rand) \div 1000

\* base * (0.5 + Math.random()); rand is the Math.random() sample in 1/1000
backoffJitter(base, rand) == (base * (500 + rand)) \div 1000

\* rand is the Math.random() sample in 1/1000.
retryDelay(attempt, retryAfter, rand) ==
  LET parsedRetryAfter == parseRetryAfter(retryAfter)
      base == BACKOFF_BASE_MS * Pow2(attempt)
      jitter == backoffJitter(base, rand)
  IN IF ~parsedRetryAfter.isNull THEN parsedRetryAfter.ms
     ELSE Min(BACKOFF_CAP_MS, jitter)

----------------------------------------------------------------------------
(* canvas/auth.ts *)

NoExch == [stage |-> "none", force |-> FALSE]
NoHdr == [p |-> NoProc, tok |-> NoToken, fresh |-> FALSE, known |-> FALSE, remaining |-> 0]

\* The credential `Bearer ${token}` as handed out now to p, with the validity
\* the token really has left: the instant it was obtained plus the reported
\* lifetime, minus now.  fresh: the call awaited the refresh that obtained it.
Bearer(p, tok, fresh) ==
  IF kind = "oauth" /\ tokMeta.lifetime # NoLifetime
  THEN [p |-> p, tok |-> tok, fresh |-> fresh, known |-> TRUE,
        remaining |-> tokMeta.issuedAt + tokMeta.lifetime * 1000 - now]
  ELSE [p |-> p, tok |-> tok, fresh |-> fresh, known |-> FALSE, remaining |-> 0]

shouldRefreshSoonUnknown(a) ==
  IF ~Truthy(a.tokenExpiresAt) THEN TRUE
  ELSE now >= a.tokenExpiresAt - REFRESH_MARGIN_MS

shouldRefreshSoonInverted(a) ==
  IF ~Truthy(a.tokenExpiresAt) THEN FALSE
  ELSE now <= a.tokenExpiresAt - REFRESH_MARGIN_MS

shouldRefreshSoon(a) ==
  IF ~Truthy(a.tokenExpiresAt) THEN FALSE
  ELSE now >= a.tokenExpiresAt - REFRESH_MARGIN_MS

tokenExpiryUnclamped(expires_in) ==
  IF Truthy(expires_in) THEN now + (expires_in - EXPIRY_SKEW_SEC) * 1000 ELSE NULL

\* performRefresh lines 134-138: the new value of this.tokenExpiresAt for
\* payload.expires_in (NoLifetime: absent)
tokenExpiry(expires_in) ==
  IF Truthy(expires_in) THEN now + Max(expires_in - EXPIRY_SKEW_SEC, 0) * 1000 ELSE NULL

refreshTokenPairInvalidate(p, force, a, e) ==
  IF a.refreshing # NoProc
  THEN [auth |-> a, exch |-> e, aw |-> a.refreshing,
        imm |-> IF e[a.refreshing].stage \in {"ok", "err"}
                THEN e[a.refreshing].stage ELSE "no"]
  ELSE [auth |-> [a EXCEPT !.refreshing = p,
                           !.accessToken = IF force THEN NoToken ELSE @],
        exch |-> [e EXCEPT ![p] = [stage |-> "fetch", force |-> force]],
        aw |-> p, imm |-> "no"]

refreshTokenPairNoJoin(p, force, a, e) ==
  [auth |-> [a EXCEPT !.refreshing = p],
   exch |-> [e EXCEPT ![p] = [stage |-> "fetch", force |-> force]],
   aw |-> p, imm |-> "no"]

\* The synchronous part of refreshTokenPair(force) run by process p on the
\* strategy state (a, e): either p joins the promise in this.refreshing, or
\* it calls performRefresh (which sends the token request) and stores the
\* promise.  aw names the promise p awaits, imm how that promise has
\* already settled ("no" when it is pending).
refreshTokenPair(p, force, a, e) ==
  IF a.refreshing # NoProc
  THEN [auth |-> a, exch |-> e, aw |-> a.refreshing,
        imm |-> IF e[a.refreshing].stage \in {"ok", "err"}
                THEN e[a.refreshing].stage ELSE "no"]
  ELSE [auth |-> [a EXCEPT !.refreshing = p],
        exch |-> [e EXCEPT ![p] = [stage |-> "fetch", force |-> force]],
        aw |-> p, imm |-> "no"]

\* getAuthorizationHeader up to its first await: done with a token, or
\* suspended at line 50 ("gah1") or line 54 ("gah2").
getAuthorizationHeader(p, a, e) ==
  IF kind = "pat"
  THEN [done |-> TRUE, fresh |-> FALSE, tok |-> PatToken, at |-> "idle", auth |-> a, exch |-> e,
        aw |-> NoProc, imm |-> "no"]
  ELSE IF shouldRefreshSoon(a)
  THEN LET r == refreshTokenPair(p, FALSE, a, e)
       IN [done |-> FALSE, fresh |-> FALSE, tok |-> NoToken, at |-> "gah1", auth |-> r.auth,
           exch |-> r.exch, aw |-> r.aw, imm |-> r.imm]
  ELSE IF ~Truthy(a.accessToken)
  THEN LET r == refreshTokenPair(p, FALSE, a, e)
       IN [done |-> FALSE, fresh |-> FALSE, tok |-> NoToken, at |-> "gah2", auth |-> r.auth,
           exch |-> r.exch, aw |-> r.aw, imm |-> r.imm]
  ELSE [done |-> TRUE, fresh |-> FALSE, tok |-> a.accessToken, at |-> "idle", auth |-> a, exch |-> e,
        aw |-> NoProc, imm |-> "no"]

\* getAuthorizationHeader resumed at "gah1" after a successful refresh:
\* lines 53-61.
getAuthorizationHeaderRest(p, a, e) ==
  IF ~Truthy(a.accessToken)
  THEN LET r == refreshTokenPair(p, FALSE, a, e)
       IN [done |-> FALSE, fresh |-> TRUE, tok |-> NoToken, at |-> "gah2", auth |-> r.auth,
           exch |-> r.exch, aw |-> r.aw, imm |-> r.imm]
  ELSE [done |-> TRUE, fresh |-> TRUE, tok |-> a.accessToken, at |-> "idle", auth |-> a, exch |-> e,
        aw |-> NoProc, imm |-> "no"]

\* Process p suspends at the await the call g reached.
Suspend(p, g, rb) ==
  /\ auth' = g.auth
  /\ exch' = g.exch
  /\ pc' = [pc EXCEPT ![p] = g.at]
  /\ awaiting' = [awaiting EXCEPT ![p] = g.aw]
  /\ ready' = IF g.imm = "no" THEN rb ELSE rb \cup {p}
  /\ resume' = IF g.imm = "no" THEN resume ELSE [resume EXCEPT ![p] = g.imm]
  /\ handed' = NoHdr

\* The promise of the exchange that process i started settles: every
\* process awaiting it becomes ready.
Settle(i, res) ==
  /\ exch' = [exch EXCEPT ![i] = [@ EXCEPT !.stage = res]]
  /\ ready' = {q \in Procs : awaiting[q] = i}
  /\ resume' = [q \in Procs |-> IF awaiting[q] = i THEN res ELSE resume[q]]

AfterFinallyAuthOnSuccess(p) ==
  IF awaiting[p] = p /\ resume[p] = "ok" THEN [auth EXCEPT !.refreshing = NoProc] ELSE auth

\* refreshTokenPair resumed by p: the initiator runs `finally`.
AfterFinallyAuth(p) ==
  IF awaiting[p] = p THEN [auth EXCEPT !.refreshing = NoProc] ELSE auth
AfterFinallyExch(p) ==
  IF awaiting[p] = p THEN [exch EXCEPT ![p] = NoExch] ELSE exch

\* The continuation registered first on a promise runs first.
MayResume(p) ==
  /\ p \in ready
  /\ awaiting[p] = p \/ awaiting[p] \notin ready

----------------------------------------------------------------------------
(* canvas/client.ts: getAll and fetchWithRetry of process 0 *)

maxRetries == DEFAULT_MAX_RETRIES

retriesRemainInclusive(attempt) == attempt <= maxRetries

\* attempt < this.maxRetries
retriesRemain(attempt) == attempt < maxRetries

patHandleUnauthorizedTrue == TRUE

\* PersonalAccessTokenAuth.handleUnauthorized()
patHandleUnauthorized == FALSE

pushResultsFront(results, payload) == payload \o results

\* results.push(...payload)
pushResults(results, payload) == results \o payload

pushRequestIdLatest(requestIds, requestId) ==
  IF Truthy(requestId) THEN <<requestId>> ELSE requestIds

\* if (requestId) requestIds.push(requestId)
pushRequestId(requestIds, requestId) ==
  IF Truthy(requestId) THEN Append(requestIds, requestId) ELSE requestIds

RetryAfters == {RetryAfterNone, [k |-> "sec", v |-> 2], [k |-> "sec", v |-> 7]}

Bodies == {[k |-> "array", records |-> b] : b \in PageBodies}
            \cup {[k |-> "object", records |-> <<>>], [k |-> "garbage", records |-> <<>>]}

\* link headers the upstream sends with page u: parts <url>; rel="..."
Links(u) ==
  {<<>>, <<[rel |-> "last", url |-> MaxPages]>>}
    \cup (IF u < MaxPages
          THEN {<<[rel |-> "next", url |-> u + 1]>>,
                <<[rel |-> "next", url |-> u + 1], [rel |-> "last", url |-> MaxPages]>>}
          ELSE {})

\* x-request-id of the physical response to the request in flight: absent, or
\* an id that names the page and the physical request.
Rids == {NoRid, cl.nextUrl * 10 + gh.physical}

RECURSIVE LinkRel(_, _)
LinkRel(header, rel) ==
  IF header = <<>> THEN NULL
  ELSE LET rest == LinkRel(Tail(header), rel)
       IN IF rest # NULL THEN rest
          ELSE IF Head(header).rel = rel THEN Head(header).url ELSE NULL

parseLinkHeaderLast(header) == [next |-> LinkRel(header, "last")]

\* the entries of the link header by relation; getAll reads links.next
parseLinkHeader(header) == [next |-> LinkRel(header, "next")]

ResponseOk(status) == status >= 200 /\ status <= 299

NoResp == [status |-> NULL, rid |-> NoRid, msg |-> "none", retryAfter |-> RetryAfterNone]

NewLocals ==
  [nextUrl |-> 1, attempt |-> 0, results |-> <<>>, requestIds |-> <<>>, status |-> 200,
   sentTok |-> NoToken, sleepMs |-> NULL, resp |-> NoResp, aborted |-> FALSE]

NewHistory == [physical |-> 0, seen |-> {}, served |-> <<>>, stale |-> NoToken]

NoOut ==
  [t |-> "none", app |-> FALSE, code |-> "none", message |-> "none",
   httpStatus |-> NULL, requestId |-> NoRid, canvasStatus |-> NULL,
   data |-> <<>>, requestIds |-> <<>>, status |-> NULL]

\* The CanvasResult of getAll; requestIds = <<>> stands for undefined.
CanvasResult(data, status, requestIds) ==
  [t |-> "ok", app |-> FALSE, code |-> "none", message |-> "none",
   httpStatus |-> NULL,
   requestId |-> IF requestIds = <<>> THEN NoRid ELSE requestIds[Len(requestIds)],
   canvasStatus |-> NULL, data |-> data, requestIds |-> requestIds, status |-> status]

\* The client runs on without calling the strategy.
StrategyKeep(a, e, rb) ==
  /\ auth' = a
  /\ exch' = e
  /\ ready' = rb
  /\ resume' = resume
  /\ awaiting' = [awaiting EXCEPT ![Client] = NoProc]
  /\ handed' = NoHdr

ThrowPartial(err, c, g0, a, e, rb) ==
  /\ pc' = [pc EXCEPT ![Client] = "done"]
  /\ out' = CanvasResult(c.results, c.status, c.requestIds)
  /\ cl' = c
  /\ gh' = g0
  /\ StrategyKeep(a, e, rb)

\* getAll throws err.
Throw(err, c, g0, a, e, rb) ==
  /\ pc' = [pc EXCEPT ![Client] = "failed"]
  /\ out' = err
  /\ cl' = c
  /\ gh' = g0
  /\ StrategyKeep(a, e, rb)

\* await sleep(ms)
Sleep(ms, c, g0, a, e, rb) ==
  /\ pc' = [pc EXCEPT ![Client] = "sleeping"]
  /\ out' = out
  /\ cl' = [c EXCEPT !.sleepMs = ms]
  /\ gh' = g0
  /\ StrategyKeep(a, e, rb)

\* fetchWithRetry lines 148-157 once the getAuthorizationHeader call g has
\* got as far as it can: with a header the physical request is sent, unless
\* init.signal is aborted already: fetch then rejects without sending.
SendOrSuspend(g, c, g0, rb) ==
  /\ out' = out
  /\ IF g.done
     THEN /\ auth' = g.auth
          /\ exch' = g.exch
          /\ ready' = rb
          /\ resume' = resume
          /\ awaiting' = [awaiting EXCEPT ![Client] = NoProc]
          /\ handed' = Bearer(Client, g.tok, g.fresh)
          /\ pc' = [pc EXCEPT ![Client] = "fetching"]
          /\ cl' = [c EXCEPT !.sentTok = g.tok, !.sleepMs = NULL, !.resp = NoResp]
          /\ gh' = IF c.aborted THEN g0 ELSE [g0 EXCEPT !.physical = @ + 1]
     ELSE /\ Suspend(Client, g, rb)
          /\ cl' = [c EXCEPT !.sleepMs = NULL, !.resp = NoResp]
          /\ gh' = g0

\* fetchWithRetry(url, init, attempt) from its first line; c carries url and attempt.
fetchWithRetry(c, g0, a, e, rb) ==
  SendOrSuspend(getAuthorizationHeader(Client, a, e), c, g0, rb)

pageAttemptCarried(previous) == previous

\* the attempt with which getAll calls fetchWithRetry for the next page,
\* this.fetchWithRetry(nextUrl, init): the default of the parameter, whatever
\* value it had when the page before was served
pageAttempt(previous) == 0

\* getAll lines 88-116: fetchWithRetry returned the response c.resp.
getAllPage(body, link, c, g0, a, e, rb) ==
  LET status == c.resp.status
      requestId == c.resp.rid
      c1 == [c EXCEPT !.status = status, !.requestIds = pushRequestId(@, requestId)]
  IN IF ~ResponseOk(status)
     THEN Throw(canvasError(status, requestId, c.resp.msg), c1, g0, a, e, rb)
     ELSE IF body.k = "garbage"
     THEN Throw(unknownError("Canvas returned an unexpected payload format."), c1, g0, a, e, rb)
     ELSE IF body.k # "array"
     THEN Throw(unknownError("Expected a list response from Canvas."), c1, g0, a, e, rb)
     ELSE LET c2 == [c1 EXCEPT !.results = pushResults(@, body.records),
                               !.nextUrl = parseLinkHeader(link).next]
              g1 == [g0 EXCEPT !.served = Append(@, [records |-> body.records, rid |-> requestId,
                                                    next |-> LinkRel(link, "next")])]
          IN IF c2.nextUrl # NULL
             THEN fetchWithRetry([c2 EXCEPT !.attempt = pageAttempt(@)],
                                 [g1 EXCEPT !.physical = 0, !.seen = {}, !.stale = NoToken], a, e, rb)
             ELSE /\ pc' = [pc EXCEPT ![Client] = "done"]
                  /\ out' = CanvasResult(c2.results, c2.status, c2.requestIds)
                  /\ cl' = c2
                  /\ gh' = g1
                  /\ StrategyKeep(a, e, rb)

\* fetchWithRetry lines 159-171: the physical request got a response.
onResponse(resp, rand, body, link) ==
  LET c == [cl EXCEPT !.resp = resp]
      g0 == [gh EXCEPT !.seen = @ \cup {resp.status}]
  IN IF resp.status = 401 /\ kind = "oauth"
     THEN \* await this.auth.handleUnauthorized() -> refreshTokenPair(true)
          LET r == refreshTokenPair(Client, TRUE, auth, exch)
          IN /\ Suspend(Client, [at |-> "hu", auth |-> r.auth, exch |-> r.exch,
                                 aw |-> r.aw, imm |-> r.imm], ready)
             /\ cl' = c /\ gh' = g0 /\ out' = out
     ELSE IF resp.status = 401 /\ patHandleUnauthorized /\ retriesRemain(c.attempt)
     THEN fetchWithRetry([c EXCEPT !.attempt = @ + 1], g0, auth, exch, ready)
     ELSE IF shouldRetry(resp.status) /\ retriesRemain(c.attempt)
     THEN Sleep(retryDelay(c.attempt, resp.retryAfter, rand), c, g0, auth, exch, ready)
     ELSE getAllPage(body, link, c, g0, auth, exch, ready)

----------------------------------------------------------------------------
(* mcp/tools.ts: list_upcoming.  A due date is the instant Date.parse gives *)
(* for the due_at string, NULL is null or undefined.                        *)

Ids == 1..MaxIds
Courses == 1..MaxCourses
DaysArgs == {NULL, 1}     \* args.days: undefined or 1

\* a ?? b
Coalesce(a, b) == IF a # NULL THEN a ELSE b

SeqsUpTo(S, n) == UNION {[1..k -> S] : k \in 0..n}

POSITIVE_INFINITY == 2000000000

NoFeed == [source |-> "none", course |-> NULL, items |-> <<>>, admitted |-> <<>>]

NoUpcoming ==
  [stage |-> "idle", days |-> NULL, now |-> NULL, rangeEnd |-> NULL, upcomingMap |-> <<>>,
   courses |-> <<>>, upcoming |-> <<>>, error |-> "none", afterTodo |-> <<>>,
   skipped |-> {}, feed |-> NoFeed]

\* due_at values the feeds carry, around the two ends of the horizon
DueDates(u) == {NULL, u.now - 1, u.now, u.rangeEnd, u.rangeEnd + 1}

\* CanvasTodoItem: without assignment, or with an assignment that has no
\* course_id of its own
TodoItems(u) ==
  {[hasAssignment |-> FALSE, course_id |-> NULL, id |-> 0, assignment_course_id |-> NULL,
    due_at |-> NULL]}
    \cup {[hasAssignment |-> TRUE, course_id |-> NULL, id |-> id,
           assignment_course_id |-> NULL, due_at |-> d] :
          id \in Ids, d \in DueDates(u)}

\* CanvasAssignment of a course's assignment feed
AssignmentItems(u) ==
  {[id |-> id, course_id |-> NULL, due_at |-> d] : id \in Ids, d \in DueDates(u)}

\* course lists /users/self/courses returns
CourseLists == {cs \in SeqsUpTo(Courses, MaxCourses) : \A i, j \in 1..Len(cs) : cs[i] = cs[j] => i = j}

isWithinRangeNullIn(isoDate, start, end) ==
  IF isoDate = NULL THEN TRUE
  ELSE isoDate >= start /\ isoDate <= end

isWithinRangeOpenEnd(isoDate, start, end) ==
  IF isoDate = NULL THEN FALSE
  ELSE isoDate >= start /\ isoDate < end

isWithinRange(isoDate, start, end) ==
  IF isoDate = NULL THEN FALSE
  ELSE isoDate >= start /\ isoDate <= end

\* mappers.ts: mapAssignment(raw, source), the fields the merge looks at
mapUpcomingFromAssignment(assignment, source) ==
  [id |-> assignment.id, course_id |-> assignment.course_id,
   due_at |-> Coalesce(assignment.due_at, NULL), source |-> source]

MapHas(m, id) == \E i \in 1..Len(m) : m[i].id = id

mapSetAppend(m, e) == Append(m, e)

\* upcomingMap.set(mapped.id, mapped): a Map keeps the position of a key
\* that is already present
mapSet(m, e) ==
  IF MapHas(m, e.id)
  THEN [i \in 1..Len(m) |-> IF m[i].id = e.id THEN e ELSE m[i]]
  ELSE Append(m, e)

assignmentInsertAlways(m, e) == mapSet(m, e)

\* if (!upcomingMap.has(mapped.id)) upcomingMap.set(mapped.id, mapped)
assignmentInsert(m, e) == IF ~MapHas(m, e.id) THEN mapSet(m, e) ELSE m

\* lines 479-496: the loop over todoResult.data; acc is [map, admitted],
\* admitted the entries that passed the horizon check
RECURSIVE TodoLoop(_, _, _)
TodoLoop(items, acc, u) ==
  IF items = <<>> THEN acc
  ELSE LET todo == Head(items)
           assignment == [id |-> todo.id,
                          course_id |-> Coalesce(todo.assignment_course_id,
                                                 Coalesce(todo.course_id, 0)),
                          due_at |-> todo.due_at]
           mapped == mapUpcomingFromAssignment(assignment, "todo")
       IN IF ~todo.hasAssignment THEN TodoLoop(Tail(items), acc, u)
          ELSE IF ~isWithinRange(assignment.due_at, u.now, u.rangeEnd)
          THEN TodoLoop(Tail(items), acc, u)
          ELSE TodoLoop(Tail(items),
                        [map |-> mapSet(acc.map, mapped),
                         admitted |-> Append(acc.admitted, mapped)], u)

\* lines 536-550: the loop over assignmentsResult.data of one course
RECURSIVE AssignmentLoop(_, _, _, _)
AssignmentLoop(items, acc, course, u) ==
  IF items = <<>> THEN acc
  ELSE LET assignment == Head(items)
           dueAt == Coalesce(assignment.due_at, NULL)
           mapped == mapUpcomingFromAssignment(
                       [assignment EXCEPT !.course_id = Coalesce(@, course)], "assignment")
       IN IF dueAt # NULL /\ ~isWithinRange(dueAt, u.now, u.rangeEnd)
          THEN AssignmentLoop(Tail(items), acc, course, u)
          ELSE AssignmentLoop(Tail(items),
                              [map |-> assignmentInsert(acc.map, mapped),
                               admitted |-> Append(acc.admitted, mapped)], course, u)

compareDueNullAsZero(a, b) ==
  LET aTime == IF a.due_at # NULL THEN a.due_at ELSE 0
      bTime == IF b.due_at # NULL THEN b.due_at ELSE 0
  IN IF aTime = bTime THEN 0 ELSE IF aTime < bTime THEN -1 ELSE 1

\* the comparator of lines 553-557: the sign of aTime - bTime, where
\* Infinity - Infinity is NaN, which sort takes as 0
compareDue(a, b) ==
  LET aTime == IF a.due_at # NULL THEN a.due_at ELSE POSITIVE_INFINITY
      bTime == IF b.due_at # NULL THEN b.due_at ELSE POSITIVE_INFINITY
  IN IF aTime = bTime THEN 0 ELSE IF aTime < bTime THEN -1 ELSE 1

\* e is put behind every element of the sorted sequence that does not
\* compare greater than it
RECURSIVE InsertSorted(_, _)
InsertSorted(sorted, e) ==
  IF sorted = <<>> THEN <<e>>
  ELSE IF compareDue(sorted[Len(sorted)], e) <= 0 THEN Append(sorted, e)
  ELSE Append(InsertSorted(SubSeq(sorted, 1, Len(sorted) - 1), e), sorted[Len(sorted)])

\* Array.from(upcomingMap.values()).sort(...): Array.prototype.sort is stable
RECURSIVE sortUpcoming(_)
sortUpcoming(values) ==
  IF values = <<>> THEN <<>>
  ELSE InsertSorted(sortUpcoming(SubSeq(values, 1, Len(values) - 1)), values[Len(values)])

----------------------------------------------------------------------------
(* JavaScript strings, as sequences of characters *)

\* null or undefined where a string may stand
NoString == <<"undefined">>

UpperLetters ==
  <<"A", "B", "C", "D", "E", "F", "G", "H", "I", "J", "K", "L", "M", "N", "O", "P", "Q", "R", "S", "T", "U", "V", "W", "X", "Y", "Z">>

LowerLetters ==
  <<"a", "b", "c", "d", "e", "f", "g", "h", "i", "j", "k", "l", "m", "n", "o", "p", "q", "r", "s", "t", "u", "v", "w", "x", "y", "z">>

DigitChars == <<"0", "1", "2", "3", "4", "5", "6", "7", "8", "9">>

IsDigit(c) == \E i \in 1..10 : DigitChars[i] = c

\* the digit a digit character stands for
DigitValue(c) == (CHOOSE i \in 1..10 : DigitChars[i] = c) - 1

toLowerCase(s) ==
  [i \in 1..Len(s) |->
     IF \E k \in 1..26 : UpperLetters[k] = s[i]
     THEN LowerLetters[CHOOSE k \in 1..26 : UpperLetters[k] = s[i]]
     ELSE s[i]]

\* s.includes(k)
includes(s, k) == \E i \in 1..(Len(s) - Len(k) + 1) : SubSeq(s, i, i + Len(k) - 1) = k

\* s.startsWith(p)
startsWith(s, p) == Len(s) >= Len(p) /\ SubSeq(s, 1, Len(p)) = p

\* s.slice(n)
sliceFrom(s, n) == SubSeq(s, n + 1, Len(s))

\* s.trim(), for strings whose only white space is the space character
trim(s) ==
  LET Inked == {i \in 1..Len(s) : s[i] # " "}
  IN IF Inked = {} THEN <<>>
     ELSE SubSeq(s, CHOOSE i \in Inked : \A j \in Inked : i <= j,
                    CHOOSE i \in Inked : \A j \in Inked : j <= i)

\* the place of a character in the collation order localeCompare uses for
\* the characters of the course names of the model: white space, then
\* punctuation, then digits, then letters
CollationOrder == <<" ", "-">> \o DigitChars \o LowerLetters

CollationRank(c) == CHOOSE i \in 1..Len(CollationOrder) : CollationOrder[i] = c

\* a.localeCompare(b), for strings of lower-case letters, digits, spaces
\* and hyphens
RECURSIVE localeCompare(_, _)
localeCompare(a, b) ==
  IF a = <<>> /\ b = <<>> THEN 0
  ELSE IF a = <<>> THEN -1
  ELSE IF b = <<>> THEN 1
  ELSE IF CollationRank(Head(a)) < CollationRank(Head(b)) THEN -1
  ELSE IF CollationRank(Head(a)) > CollationRank(Head(b)) THEN 1
  ELSE localeCompare(Tail(a), Tail(b))

\* String(n) for 0 <= n <= 99
NumberToString(n) ==
  IF n < 10 THEN <<DigitChars[n + 1]>>
  ELSE <<DigitChars[(n \div 10) + 1], DigitChars[(n % 10) + 1]>>

----------------------------------------------------------------------------
(* mcp/tools.ts: list_courses *)

NEGATIVE_INFINITY == -1

\* TERM_ORDER, in the order of the array
TERM_ORDER ==
  <<[keyword |-> <<"w", "i", "n", "t", "e", "r">>, rank |-> 1],
    [keyword |-> <<"s", "p", "r", "i", "n", "g">>, rank |-> 2],
    [keyword |-> <<"s", "u", "m", "m", "e", "r">>, rank |-> 3],
    [keyword |-> <<"f", "a", "l", "l">>, rank |-> 4],
    [keyword |-> <<"a", "u", "t", "u", "m", "n">>, rank |-> 4],
    [keyword |-> <<"f", "a", "l", "l", "-", "w", "i", "n", "t", "e", "r">>, rank |-> 5]>>

\* the courses /users/self/courses can return: name, course_code (NoString:
\* missing) and term.name (NoString: no term)
CanvasCourses ==
  <<
    [id |-> 1, name |-> <<"b">>,
     course_code |-> <<"c", "s", " ", "2", "0", "1", "9">>,
     term |-> <<"F", "a", "l", "l", " ", "2", "0", "2", "4">>],
    [id |-> 2, name |-> <<"a">>,
     course_code |-> <<"c", "s", " ", "2", "0", "1", "9">>,
     term |-> <<"F", "a", "l", "l", " ", "2", "0", "2", "4">>],
    [id |-> 3, name |-> <<"a">>,
     course_code |-> <<"c", "s", "1">>,
     term |-> <<"F", "a", "l", "l", "-", "W", "i", "n", "t", "e", "r", " ", "2", "0", "2", "4">>],
    [id |-> 4, name |-> <<"a">>,
     course_code |-> <<"c", "s", "1">>,
     term |-> <<"W", "i", "n", "t", "e", "r", " ", "2", "0", "2", "5">>],
    [id |-> 5, name |-> <<"b">>,
     course_code |-> <<"c", "s", "1">>,
     term |-> <<" ", "S", "p", "r", "i", "n", "g", " ", "2", "0", "2", "3", " ">>],
    [id |-> 6, name |-> <<"a">>,
     course_code |-> <<"2", "0", "2", "3", "-", "s", "u", "m", "m", "e", "r">>,
     term |-> NoString],
    [id |-> 7, name |-> <<"a">>,
     course_code |-> <<"c", "s", "1">>,
     term |-> NoString],
    [id |-> 8, name |-> <<"b">>,
     course_code |-> <<" ", "c", "s", "1", " ">>,
     term |-> <<"A", "u", "t", "u", "m", "n">>],
    [id |-> 9, name |-> <<>>,
     course_code |-> <<"f", "a", "l", "l", " ", "2", "0", "2", "5">>,
     term |-> <<"2", "0", "2", "4">>],
    [id |-> 10, name |-> <<"a">>,
     course_code |-> NoString,
     term |-> <<"S", "U", "M", "M", "E", "R", " ", "2", "0", "2", "5">>]
  >>

\* args.include_past and args.limit (NULL: not supplied)
IncludePastArgs == {"undefined", "false", "true"}
LimitArgs == {NULL, 1, 2}

\* new Date().getFullYear()
CurrentYears == {2025, 2026}

\* the data of one getAll: courses of distinct ids
CourseData ==
  {[i \in 1..Len(ix) |-> CanvasCourses[ix[i]]] :
     ix \in {jx \in SeqsUpTo(1..Len(CanvasCourses), MaxCourseList) :
               \A i, j \in 1..Len(jx) : jx[i] = jx[j] => i = j}}

\* mappers.ts: normalizeTerm
normalizeTerm(term) == IF term = NoString THEN <<>> ELSE trim(term)

\* mappers.ts: mapCourse
mapCourse(raw) ==
  LET trimmedName == trim(raw.name)
      trimmedCourseCode == IF raw.course_code # NoString THEN trim(raw.course_code) ELSE <<>>
      safeCourseCode == IF trimmedCourseCode # <<>> THEN trimmedCourseCode
                        ELSE <<"C", "O", "U", "R", "S", "E", "-">> \o NumberToString(raw.id)
      safeName == IF trimmedName # <<>> THEN trimmedName ELSE safeCourseCode
  IN [id |-> raw.id, name |-> safeName, term |-> normalizeTerm(raw.term),
      course_code |-> safeCourseCode]

\* value.match(YEAR_REGEX) with YEAR_REGEX = /(20\d{2})/: the places where
\* "20" and two digits stand
YearMatches(value) ==
  {i \in 1..(Len(value) - 3) :
     value[i] = "2" /\ value[i + 1] = "0" /\ IsDigit(value[i + 2]) /\ IsDigit(value[i + 3])}

extractYear(value) ==
  IF value = NoString \/ value = <<>> THEN NULL
  ELSE IF YearMatches(value) = {} THEN NULL
  ELSE LET i == CHOOSE k \in YearMatches(value) : \A j \in YearMatches(value) : k <= j
       IN 2000 + 10 * DigitValue(value[i + 2]) + DigitValue(value[i + 3])

extractCourseYear(course) ==
  LET termYear == extractYear(course.term)
  IN IF termYear # NULL THEN termYear ELSE extractYear(course.course_code)

\* the loop over TERM_ORDER from entry k on
RECURSIVE seasonRankFrom(_, _)
seasonRankFrom(lower, k) ==
  IF k > Len(TERM_ORDER) THEN NULL
  ELSE IF includes(lower, TERM_ORDER[k].keyword) THEN TERM_ORDER[k].rank
  ELSE seasonRankFrom(lower, k + 1)

extractSeasonRank(value) ==
  IF value = NoString \/ value = <<>> THEN NULL
  ELSE seasonRankFrom(toLowerCase(value), 1)

courseRecencyInfo(course) ==
  [year |-> Coalesce(extractCourseYear(course), NEGATIVE_INFINITY),
   season |-> Coalesce(extractSeasonRank(course.term),
                       Coalesce(extractSeasonRank(course.course_code), 0))]

compareRecencyOldestFirst(a, b) ==
  LET aInfo == courseRecencyInfo(a)
      bInfo == courseRecencyInfo(b)
  IN IF aInfo.year # bInfo.year THEN aInfo.year - bInfo.year
     ELSE IF aInfo.season # bInfo.season THEN bInfo.season - aInfo.season
     ELSE localeCompare(a.name, b.name)

\* the comparator of sortCoursesByRecency
compareRecency(a, b) ==
  LET aInfo == courseRecencyInfo(a)
      bInfo == courseRecencyInfo(b)
  IN IF aInfo.year # bInfo.year THEN bInfo.year - aInfo.year
     ELSE IF aInfo.season # bInfo.season THEN bInfo.season - aInfo.season
     ELSE localeCompare(a.name, b.name)

\* course is put behind every element of the sorted sequence that does not
\* compare greater than it
RECURSIVE InsertByRecency(_, _)
InsertByRecency(sorted, course) ==
  IF sorted = <<>> THEN <<course>>
  ELSE IF compareRecency(sorted[Len(sorted)], course) <= 0 THEN Append(sorted, course)
  ELSE Append(InsertByRecency(SubSeq(sorted, 1, Len(sorted) - 1), course), sorted[Len(sorted)])

\* [...courses].sort(...): Array.prototype.sort is stable
RECURSIVE sortCoursesByRecency(_)
sortCoursesByRecency(courses) ==
  IF courses = <<>> THEN <<>>
  ELSE InsertByRecency(sortCoursesByRecency(SubSeq(courses, 1, Len(courses) - 1)),
                       courses[Len(courses)])

isRecentDatedOnly(course, minYear) ==
  LET year == extractCourseYear(course)
  IN IF year = NULL THEN FALSE ELSE year >= minYear

\* the callback of courses.filter in filterRecentCourses
isRecent(course, minYear) ==
  LET year == extractCourseYear(course)
  IN IF year = NULL THEN TRUE ELSE year >= minYear

\* courses.filter(...) with minYear = currentYear - 1
RECURSIVE filterFrom(_, _)
filterFrom(courses, minYear) ==
  IF courses = <<>> THEN <<>>
  ELSE IF isRecent(Head(courses), minYear)
  THEN <<Head(courses)>> \o filterFrom(Tail(courses), minYear)
  ELSE filterFrom(Tail(courses), minYear)

filterRecentCourses(courses, currentYear) == filterFrom(courses, currentYear - 1)

sliceLast(courses, limit) == SubSeq(courses, Max(1, Len(courses) - limit + 1), Len(courses))

\* courses.slice(0, limit)
slice(courses, limit) == SubSeq(courses, 1, Min(limit, Len(courses)))

NoListCourses ==
  [stage |-> "idle", include_past |-> "undefined", limit |-> NULL, currentYear |-> NULL,
   mapped |-> <<>>, kept |-> <<>>, courses |-> <<>>]

----------------------------------------------------------------------------
(* mcp/server.ts *)

\* config.bearerToken: MCP_BEARER, which env.ts trims and requires to be
\* non-empty
MCP_BEARER == <<"s", "3">>

\* req.headers.authorization (NoString: no such header)
AuthorizationHeaders ==
  {NoString,
   <<>>,
   <<"B", "a", "s", "i", "c", " ", "s", "3">>,
   <<"b", "e", "a", "r", "e", "r", " ", "s", "3">>,
   <<"B", "e", "a", "r", "e", "r">>,
   <<"B", "e", "a", "r", "e", "r", " ">>,
   <<"B", "e", "a", "r", "e", "r", " ", "s", "3">>,
   <<"B", "e", "a", "r", "e", "r", " ", " ", "s", "3", " ">>,
   <<"B", "e", "a", "r", "e", "r", " ", "s", "4">>,
   <<"B", "e", "a", "r", "e", "r", " ", "s", "3", "x">>}

\* req.query.sessionId (NULL: none); session ids are numbered as the
\* transports are created
SessionIdArgs == {NULL} \cup (1..MaxSessions)

authorizeAnyBearer(header, token) ==
  IF header = NoString \/ header = <<>> \/ ~startsWith(header, <<"B", "e", "a", "r", "e", "r", " ">>)
  THEN [ok |-> FALSE, status |-> 401]
  ELSE [ok |-> TRUE, status |-> NULL]

\* authorize(req, res, token): whether the handler goes on, and the status
\* of the response sent if it does not
authorize(header, token) ==
  IF header = NoString \/ header = <<>> \/ ~startsWith(header, <<"B", "e", "a", "r", "e", "r", " ">>)
  THEN [ok |-> FALSE, status |-> 401]
  ELSE LET provided == trim(sliceFrom(header, Len(<<"B", "e", "a", "r", "e", "r", " ">>)))
       IN IF provided # token
          THEN [ok |-> FALSE, status |-> 403]
          ELSE [ok |-> TRUE, status |-> NULL]

NoRequest == [route |-> "none", header |-> NoString, sessionId |-> NULL, status |-> NULL]

\* startServer has run: no session, no request handled
NoServer ==
  [sessions |-> {}, created |-> 0, dispatched |-> 0, handled |-> 0, last |-> NoRequest]

----------------------------------------------------------------------------
(* core/timezone.ts and the mappers.  A timestamp string is a record: k is *)
(* "iso" for an ISO 8601 string with the fields written in it (offset is   *)
(* "Z" or a numeric offset), "text" for a string that is no date, "null"   *)
(* for null.  Instants are seconds since 2024-01-01T00:00:00Z.             *)

NullStamp ==
  [k |-> "null", year |-> 0, month |-> 0, day |-> 0, hour |-> 0, minute |-> 0, second |-> 0,
   offset |-> <<>>]

\* 'not-a-date'
NotADate == [NullStamp EXCEPT !.k = "text"]

Iso(month, day, hour, minute, second, offset) ==
  [k |-> "iso", year |-> 2024, month |-> month, day |-> day, hour |-> hour,
   minute |-> minute, second |-> second, offset |-> offset]

\* the timestamps Canvas sends: 2024-06-30, 2024-07-01 and 2024-12-01 at
\* 00:00, 01:00, 08:00 and 15:00 UTC, and one written with an offset
IsoStamps ==
  {Iso(d[1], d[2], h, 0, 0, <<"Z">>) : d \in {<<6, 30>>, <<7, 1>>, <<12, 1>>}, h \in {0, 1, 8, 15}}
    \cup {Iso(7, 1, 15, 30, 0, <<"+", "0", "2", ":", "0", "0">>)}

Stamps == IsoStamps \cup {NullStamp, NotADate}

\* CANVAS_TIMEZONE
Zones == {"UTC", "America/Los_Angeles", "America/Toronto"}

DaysInMonth == <<31, 29, 31, 30, 31, 30, 31, 31, 30, 31, 30, 31>>

RECURSIVE DaysBefore(_)
DaysBefore(month) == IF month = 1 THEN 0 ELSE DaysBefore(month - 1) + DaysInMonth[month - 1]

\* Date.UTC(2024, month - 1, day, hour, minute, second)
DateUTC(month, day, hour, minute, second) ==
  (((DaysBefore(month) + day - 1) * 24 + hour) * 60 + minute) * 60 + second

\* the minutes east of UTC an offset stands for
OffsetMinutes(offset) ==
  IF offset = <<"Z">> THEN 0
  ELSE LET m == (10 * DigitValue(offset[2]) + DigitValue(offset[3])) * 60
                  + 10 * DigitValue(offset[5]) + DigitValue(offset[6])
       IN IF offset[1] = "-" THEN 0 - m ELSE m

\* new Date(trimmed).getTime(); NULL is NaN
DateParse(value) ==
  IF value.k # "iso" THEN NULL
  ELSE DateUTC(value.month, value.day, value.hour, value.minute, value.second)
         - OffsetMinutes(value.offset) * 60

\* the offset from UTC, in minutes, that the time zone has at instant t of
\* 2024: daylight saving time runs from 10 March to 3 November
ZoneOffset(zone, t) ==
  IF zone = "America/Los_Angeles"
  THEN IF t >= DateUTC(3, 10, 10, 0, 0) /\ t < DateUTC(11, 3, 9, 0, 0) THEN -420 ELSE -480
  ELSE IF zone = "America/Toronto"
  THEN IF t >= DateUTC(3, 10, 7, 0, 0) /\ t < DateUTC(11, 3, 6, 0, 0) THEN -240 ELSE -300
  ELSE 0

\* partsToNumbers(dateTimeFormatter.formatToParts(date)): the wall clock of
\* the time zone at instant t
formatToParts(t, zone) ==
  LET local == t + ZoneOffset(zone, t) * 60
      days == local \div 86400
      rest == local % 86400
      month == CHOOSE m \in 1..12 : DaysBefore(m) <= days /\ days < DaysBefore(m) + DaysInMonth[m]
  IN [year |-> 2024, month |-> month, day |-> days - DaysBefore(month) + 1,
      hour |-> rest \div 3600, minute |-> (rest % 3600) \div 60, second |-> rest % 60]

\* pad(value)
pad(value) == IF value < 10 THEN <<"0">> \o NumberToString(value) ELSE NumberToString(value)

formatOffset(offsetMinutes) ==
  LET sign == IF offsetMinutes >= 0 THEN "+" ELSE "-"
      absolute == IF offsetMinutes >= 0 THEN offsetMinutes ELSE 0 - offsetMinutes
  IN <<sign>> \o pad(absolute \div 60) \o <<":">> \o pad(absolute % 60)

\* toCanvasTimezone(value) under the configured time zone
toCanvasTimezone(value, zone) ==
  IF value.k = "null" THEN value
  ELSE IF DateParse(value) = NULL THEN value
  ELSE LET parts == formatToParts(DateParse(value), zone)
           targetTimestamp == DateUTC(parts.month, parts.day, parts.hour, parts.minute,
                                      parts.second)
           offsetMinutes == (targetTimestamp - DateParse(value)) \div 60
       IN Iso(parts.month, parts.day, parts.hour, parts.minute, parts.second,
              formatOffset(offsetMinutes))

\* CanvasAssignment and CanvasFile, the fields that hold timestamps
RawAssignments == {[id |-> 1, due_at |-> d] : d \in Stamps}
RawFiles == {[id |-> 3, created_at |-> c, updated_at |-> u] : c \in IsoStamps, u \in IsoStamps}

\* mappers.ts: mapAssignment, due_at: raw.due_at ?? null
mapAssignment(raw) == [id |-> raw.id, due_at |-> raw.due_at]

\* mappers.ts: mapFile
mapFile(raw) == [id |-> raw.id, created_at |-> raw.created_at, updated_at |-> raw.updated_at]

\* the modules are not loaded yet
NoTimezone == [stage |-> "unloaded", zone |-> "UTC", raw |-> NullStamp, mapped |-> NullStamp]

----------------------------------------------------------------------------
(* Two runs of list_upcoming: initial values *)

sortResultsAnyTieOrder(values) ==
  LET n == Len(values)
  IN {[i \in 1..n |-> values[p[i]]] :
        p \in {q \in [1..n -> 1..n] :
                 /\ \A i, j \in 1..n : q[i] = q[j] => i = j
                 /\ \A i, j \in 1..n : i < j => compareDue(values[q[i]], values[q[j]]) <= 0}}

\* the sorted arrays Array.prototype.sort may return for values: the sort
\* is stable, so the order of entries that compare equal is that of values
sortResults(values) == {sortUpcoming(values)}

\* two runs of the handler, neither called yet
NoRuns == [a |-> NoUpcoming, b |-> NoUpcoming]

----------------------------------------------------------------------------
(* The state after construction *)

Init ==
  /\ kind \in {"pat", "oauth"}
  /\ auth \in {[accessToken |-> t, refreshToken |-> 1, tokenExpiresAt |-> NULL,
                refreshing |-> NoProc] :
               t \in IF kind = "oauth" THEN {NoToken, 1} ELSE {NoToken}}
  /\ exch = [p \in Procs |-> NoExch]
  /\ awaiting = [p \in Procs |-> NoProc]
  /\ ready = {}
  /\ resume = [p \in Procs |-> "ok"]
  /\ pc = [p \in Procs |-> IF p = Client THEN "init" ELSE "idle"]
  /\ handed = NoHdr
  /\ tokMeta = [issuedAt |-> StartNow, lifetime |-> NoLifetime]
  /\ issued = 1
  /\ now = StartNow
  /\ cl = NewLocals
  /\ out = NoOut
  /\ gh = NewHistory
  /\ up = NoUpcoming
  /\ runs = NoRuns
  /\ lc = NoListCourses
  /\ srv = NoServer
  /\ tz = NoTimezone

----------------------------------------------------------------------------
(* Actions of the getAll call *)

\* getAll is called: lines 73-86 up to the first await that suspends.
GetAll ==
  /\ pc[Client] = "init"
  /\ ready = {}
  /\ fetchWithRetry(NewLocals, NewHistory, auth, exch, ready)
  /\ UNCHANGED <<toolVars, up, kind, tokMeta, issued, now>>

\* The upstream answers 200.
RespondSuccess ==
  /\ pc[Client] = "fetching"
  /\ ~cl.aborted
  /\ ready = {}
  /\ \E rid \in Rids, body \in Bodies, link \in Links(cl.nextUrl) :
       onResponse([status |-> 200, rid |-> rid, msg |-> "none", retryAfter |-> RetryAfterNone],
                  0, body, link)
  /\ UNCHANGED <<toolVars, up, kind, tokMeta, issued, now>>

\* The upstream answers 401.
RespondUnauthorized ==
  /\ pc[Client] = "fetching"
  /\ ~cl.aborted
  /\ ready = {}
  /\ \E rid \in Rids, msg \in {"none", "upstream says"} :
       onResponse([status |-> 401, rid |-> rid, msg |-> msg, retryAfter |-> RetryAfterNone], 0,
                  [k |-> "object", records |-> <<>>], <<>>)
  /\ UNCHANGED <<toolVars, up, kind, tokMeta, issued, now>>

\* The upstream answers 429 or 5xx.
RespondRetryable ==
  /\ pc[Client] = "fetching"
  /\ ~cl.aborted
  /\ ready = {}
  /\ \E status \in {s \in Statuses : shouldRetry(s)}, rid \in Rids,
        msg \in {"none", "upstream says"}, retryAfter \in RetryAfters, rand \in Jitters :
       onResponse([status |-> status, rid |-> rid, msg |-> msg, retryAfter |-> retryAfter], rand,
                  [k |-> "object", records |-> <<>>], <<>>)
  /\ UNCHANGED <<toolVars, up, kind, tokMeta, issued, now>>

\* The upstream answers another non-success status.
RespondOther ==
  /\ pc[Client] = "fetching"
  /\ ~cl.aborted
  /\ ready = {}
  /\ \E status \in {s \in Statuses : ~ResponseOk(s) /\ s # 401 /\ ~shouldRetry(s)},
        rid \in Rids, msg \in {"none", "upstream says"} :
       onResponse([status |-> status, rid |-> rid, msg |-> msg, retryAfter |-> RetryAfterNone], 0,
                  [k |-> "object", records |-> <<>>], <<>>)
  /\ UNCHANGED <<toolVars, up, kind, tokMeta, issued, now>>

\* The catch block of fetchWithRetry, lines 172-179: fetch rejected with err.
onFetchError(err, g0) ==
  IF cl.attempt >= maxRetries
  THEN Throw(err, cl, g0, auth, exch, ready)
  ELSE \E rand \in Jitters :
         Sleep(retryDelay(cl.attempt, RetryAfterNone, rand), cl, g0, auth, exch, ready)

\* The upstream answers any non-success status.
RespondStatus ==
  /\ pc[Client] = "fetching"
  /\ ~cl.aborted
  /\ ready = {}
  /\ \E status \in ErrorStatuses, rid \in Rids, msg \in {"none", "upstream says"},
        rand \in Jitters :
       onResponse([status |-> status, rid |-> rid, msg |-> msg, retryAfter |-> RetryAfterNone],
                  rand, [k |-> "object", records |-> <<>>], <<>>)
  /\ UNCHANGED <<toolVars, up, kind, tokMeta, issued, now>>

\* fetch rejects (no HTTP response).  A transport failure is 0 in gh.seen.
TransportFailure ==
  /\ pc[Client] = "fetching"
  /\ ~cl.aborted
  /\ ready = {}
  /\ onFetchError(PlainError("fetch failed"), [gh EXCEPT !.seen = @ \cup {0}])
  /\ UNCHANGED <<toolVars, up, kind, tokMeta, issued, now>>

\* The caller triggers the cancellation signal while the call is running.
Abort ==
  /\ pc[Client] \notin {"init", "done", "failed"}
  /\ ~cl.aborted
  /\ ready = {}
  /\ cl' = [cl EXCEPT !.aborted = TRUE]
  /\ handed' = NoHdr
  /\ UNCHANGED <<toolVars, up, kind, auth, exch, awaiting, ready, resume, pc, tokMeta, issued, now, out, gh>>

\* fetch rejects with an AbortError because init.signal is aborted.
FetchAborted ==
  /\ pc[Client] = "fetching"
  /\ cl.aborted
  /\ ready = {}
  /\ onFetchError(PlainError("This operation was aborted"), gh)
  /\ UNCHANGED <<toolVars, up, kind, tokMeta, issued, now>>

\* The backoff timer fires: return this.fetchWithRetry(url, init, attempt + 1).
WakeUp ==
  /\ pc[Client] = "sleeping"
  /\ ready = {}
  /\ fetchWithRetry([cl EXCEPT !.attempt = @ + 1], gh, auth, exch, ready)
  /\ UNCHANGED <<toolVars, up, kind, tokMeta, issued, now>>

\* The refresh promise the getAll call awaits has settled: it resumes inside
\* refreshTokenPair and runs on to its next await.
ResumeClient ==
  /\ MayResume(Client)
  /\ LET a1 == AfterFinallyAuth(Client)
         e1 == AfterFinallyExch(Client)
         rb == ready \ {Client}
         failed == resume[Client] = "err"
         gf == IF failed THEN [gh EXCEPT !.stale = auth.accessToken] ELSE gh
         refreshError == PlainError("Canvas OAuth token refresh failed")
     IN CASE pc[Client] = "gah1" ->
               IF failed THEN Throw(refreshError, cl, gf, a1, e1, rb)
               ELSE SendOrSuspend(getAuthorizationHeaderRest(Client, a1, e1), cl, gf, rb)
          [] pc[Client] = "gah2" ->
               IF failed THEN Throw(refreshError, cl, gf, a1, e1, rb)
               ELSE IF ~Truthy(a1.accessToken)
               THEN Throw(PlainError("Missing Canvas access token after refresh."),
                          cl, gf, a1, e1, rb)
               ELSE SendOrSuspend([done |-> TRUE, fresh |-> TRUE, tok |-> a1.accessToken,
                                   at |-> "idle",
                                   auth |-> a1, exch |-> e1, aw |-> NoProc, imm |-> "no"],
                                  cl, gf, rb)
          [] pc[Client] = "hu" ->
               IF failed
               THEN \* handleUnauthorized threw inside try: the catch block
                    IF cl.attempt >= maxRetries
                    THEN Throw(refreshError, cl, gf, a1, e1, rb)
                    ELSE \E rand \in Jitters :
                           Sleep(retryDelay(cl.attempt, RetryAfterNone, rand),
                                 cl, gf, a1, e1, rb)
               ELSE LET refreshed == Truthy(a1.accessToken)
                    IN IF refreshed /\ retriesRemain(cl.attempt)
                       THEN fetchWithRetry([cl EXCEPT !.attempt = @ + 1], gf, a1, e1, rb)
                       ELSE \* shouldRetry(401) is false: return response
                            getAllPage([k |-> "object", records |-> <<>>], <<>>,
                                       cl, gf, a1, e1, rb)
  /\ UNCHANGED <<toolVars, up, kind, tokMeta, issued, now>>

----------------------------------------------------------------------------
(* Other concurrent callers of the strategy *)

\* A call completes for user u with credential h (NoHdr: no credential).
UserDone(u, h, a, e, rb) ==
  /\ auth' = a
  /\ exch' = e
  /\ ready' = rb
  /\ resume' = resume
  /\ awaiting' = [awaiting EXCEPT ![u] = NoProc]
  /\ pc' = [pc EXCEPT ![u] = "idle"]
  /\ handed' = h

UserGetAuthorizationHeader(u) ==
  /\ pc[u] = "idle"
  /\ ready = {}
  /\ LET g == getAuthorizationHeader(u, auth, exch)
     IN IF g.done THEN UserDone(u, Bearer(u, g.tok, g.fresh), g.auth, g.exch, ready)
        ELSE Suspend(u, g, ready)
  /\ UNCHANGED <<toolVars, up, kind, tokMeta, issued, now, cl, out, gh>>

UserHandleUnauthorized(u) ==
  /\ pc[u] = "idle"
  /\ ready = {}
  /\ kind = "oauth"
  /\ LET r == refreshTokenPair(u, TRUE, auth, exch)
     IN Suspend(u, [at |-> "hu", auth |-> r.auth, exch |-> r.exch,
                    aw |-> r.aw, imm |-> r.imm], ready)
  /\ UNCHANGED <<toolVars, up, kind, tokMeta, issued, now, cl, out, gh>>

ResumeUser(u) ==
  /\ MayResume(u)
  /\ LET a1 == AfterFinallyAuth(u)
         e1 == AfterFinallyExch(u)
         rb == ready \ {u}
         failed == resume[u] = "err"
     IN CASE pc[u] = "gah1" ->
               IF failed THEN UserDone(u, NoHdr, a1, e1, rb)
               ELSE LET g == getAuthorizationHeaderRest(u, a1, e1)
                    IN IF g.done THEN UserDone(u, Bearer(u, g.tok, g.fresh), g.auth, g.exch, rb)
                       ELSE Suspend(u, g, rb)
          [] pc[u] = "gah2" ->
               IF failed \/ ~Truthy(a1.accessToken) THEN UserDone(u, NoHdr, a1, e1, rb)
               ELSE UserDone(u, Bearer(u, a1.accessToken, TRUE), a1, e1, rb)
          [] pc[u] = "hu" -> UserDone(u, NoHdr, a1, e1, rb)
  /\ UNCHANGED <<toolVars, up, kind, tokMeta, issued, now, cl, out, gh>>

----------------------------------------------------------------------------
(* The token endpoint and performRefresh *)

\* performRefresh lines 105-138: the token endpoint answers 200 to the
\* exchange process i started; the body is read and the fields are stored.
\* access_token is a fresh token or empty, refresh_token and expires_in
\* are optional.
TokenRespondOk(i) ==
  /\ exch[i].stage = "fetch"
  /\ ready = {}
  /\ \E hasToken \in BOOLEAN, refresh_token \in RefreshTokens \cup {NoToken},
        expires_in \in Lifetimes \cup {NoLifetime} :
       /\ hasToken => issued < MaxTokens
       /\ ~hasToken => refresh_token = NoToken /\ expires_in = NoLifetime
       /\ auth' = [auth EXCEPT
                     !.accessToken = IF hasToken THEN issued + 1 ELSE NoToken,
                     !.refreshToken = IF Truthy(refresh_token) THEN refresh_token ELSE @,
                     !.tokenExpiresAt = tokenExpiry(expires_in)]
       /\ issued' = IF hasToken THEN issued + 1 ELSE issued
       /\ tokMeta' = [issuedAt |-> now, lifetime |-> expires_in]
  /\ Settle(i, "ok")
  /\ handed' = NoHdr
  /\ UNCHANGED <<toolVars, up, kind, awaiting, pc, now, cl, out, gh>>

\* performRefresh lines 114-120: the token endpoint rejects the exchange.
TokenRespondFail(i) ==
  /\ exch[i].stage = "fetch"
  /\ ready = {}
  /\ IF exch[i].force
     THEN Settle(i, "err")
     ELSE /\ exch' = [exch EXCEPT ![i] = [@ EXCEPT !.stage = "sleep"]]
          /\ UNCHANGED <<ready, resume>>
  /\ handed' = NoHdr
  /\ UNCHANGED <<toolVars, up, kind, auth, awaiting, pc, tokMeta, issued, now, cl, out, gh>>

\* sleep(REFRESH_FAIL_SLEEP_MS) is over: performRefresh throws.
RefreshSleepDone(i) ==
  /\ exch[i].stage = "sleep"
  /\ ready = {}
  /\ Settle(i, "err")
  /\ handed' = NoHdr
  /\ UNCHANGED <<toolVars, up, kind, auth, awaiting, pc, tokMeta, issued, now, cl, out, gh>>

\* Time passes.
Tick ==
  /\ ready = {}
  /\ now < StartNow + MaxTicks * TickMs
  /\ now' = now + TickMs
  /\ handed' = NoHdr
  /\ UNCHANGED <<toolVars, up, kind, auth, exch, awaiting, ready, resume, pc, tokMeta, issued, cl, out, gh>>

\* One getAll call on its strategy.
Next ==
  \/ GetAll
  \/ RespondSuccess
  \/ RespondUnauthorized
  \/ RespondRetryable
  \/ RespondOther
  \/ TransportFailure
  \/ WakeUp
  \/ ResumeClient
  \/ \E i \in Procs : TokenRespondOk(i)
  \/ \E i \in Procs : TokenRespondFail(i)
  \/ \E i \in Procs : RefreshSleepDone(i)

Spec == Init /\ [][Next]_vars

\* The OAuth strategy under concurrent callers while time passes: every
\* process is a caller of getAuthorizationHeader and handleUnauthorized.
InitAuth ==
  /\ kind = "oauth"
  /\ auth \in {[accessToken |-> t, refreshToken |-> 1, tokenExpiresAt |-> NULL,
                refreshing |-> NoProc] : t \in {NoToken, 1}}
  /\ exch = [p \in Procs |-> NoExch]
  /\ awaiting = [p \in Procs |-> NoProc]
  /\ ready = {}
  /\ resume = [p \in Procs |-> "ok"]
  /\ pc = [p \in Procs |-> "idle"]
  /\ handed = NoHdr
  /\ tokMeta = [issuedAt |-> StartNow, lifetime |-> NoLifetime]
  /\ issued = 1
  /\ now = StartNow
  /\ cl = NewLocals
  /\ out = NoOut
  /\ gh = NewHistory
  /\ up = NoUpcoming
  /\ runs = NoRuns
  /\ lc = NoListCourses
  /\ srv = NoServer
  /\ tz = NoTimezone

NextAuth ==
  \/ \E u \in Procs : UserGetAuthorizationHeader(u)
  \/ \E u \in Procs : UserHandleUnauthorized(u)
  \/ \E u \in Procs : ResumeUser(u)
  \/ \E i \in Procs : TokenRespondOk(i)
  \/ \E i \in Procs : TokenRespondFail(i)
  \/ \E i \in Procs : RefreshSleepDone(i)
  \/ Tick

SpecAuth == InitAuth /\ [][NextAuth]_vars

\* One getAll call made with a cancellation signal, on a client configured
\* with a personal access token.
InitCancel ==
  /\ Init
  /\ kind = "pat"

NextCancel ==
  \/ GetAll
  \/ RespondSuccess
  \/ RespondUnauthorized
  \/ RespondRetryable
  \/ RespondOther
  \/ TransportFailure
  \/ WakeUp
  \/ Abort
  \/ FetchAborted

SpecCancel == InitCancel /\ [][NextCancel]_vars

\* One getAll call on a client configured with a personal access token,
\* against an upstream that answers with any status of ErrorStatuses.
InitStatus ==
  /\ Init
  /\ kind = "pat"

NextStatus ==
  \/ GetAll
  \/ RespondSuccess
  \/ RespondStatus
  \/ WakeUp

SpecStatus == InitStatus /\ [][NextStatus]_vars

\* retry-after headers of a 429 or 5xx response: absent, a number of seconds
\* (negative, zero, positive), an HTTP date (before and after StartNow) and a
\* value that is neither
RetryAfterHeaders ==
  {RetryAfterNone, [k |-> "sec", v |-> -5], [k |-> "sec", v |-> 0], [k |-> "sec", v |-> 2],
   [k |-> "date", v |-> StartNow - 10000], [k |-> "date", v |-> StartNow + 3000],
   [k |-> "junk", v |-> 0]}

\* The upstream answers 429 or 503 with any retry-after header.
RespondRetryAfter ==
  /\ pc[Client] = "fetching"
  /\ ~cl.aborted
  /\ ready = {}
  /\ \E status \in {429, 503}, retryAfter \in RetryAfterHeaders, rand \in Jitters :
       onResponse([status |-> status, rid |-> NoRid, msg |-> "none", retryAfter |-> retryAfter],
                  rand, [k |-> "object", records |-> <<>>], <<>>)
  /\ UNCHANGED <<toolVars, up, kind, tokMeta, issued, now>>

\* One getAll call on a client configured with a personal access token,
\* against an upstream that asks for retries with any retry-after header.
InitDelay ==
  /\ Init
  /\ kind = "pat"

NextDelay ==
  \/ GetAll
  \/ RespondSuccess
  \/ RespondRetryAfter
  \/ TransportFailure
  \/ WakeUp

SpecDelay == InitDelay /\ [][NextDelay]_vars

----------------------------------------------------------------------------
(* The list_upcoming tool: its getAll calls return data or throw *)

\* codes of the errors a getAll call can throw ("none": a plain Error)
ThrownCodes == {"AUTHORIZATION_FAILED", "CANVAS_UNAVAILABLE", "none"}

\* lines 553-568: sort and return
Finish(u) == [u EXCEPT !.stage = "done", !.upcoming = sortUpcoming(u.upcomingMap)]

\* the loop over coursesResult.data reaches its next await, or ends; f is
\* the feed merged last
NextCourse(u, f) ==
  IF u.courses = <<>> THEN Finish([u EXCEPT !.feed = f])
  ELSE [u EXCEPT !.stage = "assignments", !.feed = NoFeed]

\* lines 463-471: the handler is called with args.days when Date.now() is t
callStep(u, days, t) ==
  LET rangeDays == Coalesce(days, DEFAULT_RANGE_DAYS)
  IN [u EXCEPT !.stage = "todo", !.days = days, !.now = t, !.rangeEnd = t + rangeDays * DAY_MS]

\* lines 472-501: getAll of the to-do feed returned data
todoStep(u, data) ==
  LET acc == TodoLoop(data, [map |-> u.upcomingMap, admitted |-> <<>>], u)
  IN [u EXCEPT !.stage = "courses", !.upcomingMap = acc.map, !.afterTodo = acc.map,
               !.feed = [source |-> "todo", course |-> NULL, items |-> data,
                         admitted |-> acc.admitted]]

\* lines 502-518: getAll of the courses returned data
coursesStep(u, data) == NextCourse([u EXCEPT !.courses = data], u.feed)

\* lines 529-551, then the next course or lines 553-568: getAll of the
\* assignments of the course at hand returned data
assignmentsStep(u, data) ==
  LET course == Head(u.courses)
      acc == AssignmentLoop(data, [map |-> u.upcomingMap, admitted |-> <<>>], course, u)
  IN NextCourse([u EXCEPT !.upcomingMap = acc.map, !.courses = Tail(@)],
                [source |-> "assignment", course |-> course, items |-> data,
                 admitted |-> acc.admitted])

skipsCourseAnyAppError(code) == code # "none"

\* line 520: error instanceof AppError && error.code === 'AUTHORIZATION_FAILED'
skipsCourse(code) == code = "AUTHORIZATION_FAILED"

\* lines 519-527: getAll of the assignments of the course at hand threw an
\* error of this code, which is kept in u.error
assignmentsFailStep(u, code) ==
  IF skipsCourse(code)
  THEN NextCourse([u EXCEPT !.courses = Tail(@), !.skipped = @ \cup {Head(u.courses)},
                            !.error = code], NoFeed)
  ELSE [u EXCEPT !.stage = "failed", !.error = code, !.feed = NoFeed]

\* The tool is called: lines 463-471.
ListUpcoming ==
  /\ up.stage = "idle"
  /\ \E days \in DaysArgs : up' = callStep(up, days, now)
  /\ UNCHANGED <<clientVars, toolVars>>

\* getAll('/api/v1/users/self/todo') returns: lines 472-501.
TodoResult ==
  /\ up.stage = "todo"
  /\ \E data \in SeqsUpTo(TodoItems(up), MaxFeed) : up' = todoStep(up, data)
  /\ UNCHANGED <<clientVars, toolVars>>

\* getAll('/api/v1/users/self/todo') throws.
TodoFails ==
  /\ up.stage = "todo"
  /\ \E code \in ThrownCodes : up' = [up EXCEPT !.stage = "failed", !.error = code, !.feed = NoFeed]
  /\ UNCHANGED <<clientVars, toolVars>>

\* getAll('/api/v1/users/self/courses') returns: lines 502-518.
CoursesResult ==
  /\ up.stage = "courses"
  /\ \E data \in CourseLists : up' = coursesStep(up, data)
  /\ UNCHANGED <<clientVars, toolVars>>

\* getAll('/api/v1/users/self/courses') throws.
CoursesFails ==
  /\ up.stage = "courses"
  /\ \E code \in ThrownCodes : up' = [up EXCEPT !.stage = "failed", !.error = code, !.feed = NoFeed]
  /\ UNCHANGED <<clientVars, toolVars>>

\* getAll of the assignments of the course at hand returns: lines 529-551,
\* then the next course or lines 553-568.
AssignmentsResult ==
  /\ up.stage = "assignments"
  /\ \E data \in SeqsUpTo(AssignmentItems(up), MaxFeed) : up' = assignmentsStep(up, data)
  /\ UNCHANGED <<clientVars, toolVars>>

\* getAll of the assignments of the course at hand throws: lines 519-527.
AssignmentsFail ==
  /\ up.stage = "assignments"
  /\ \E code \in ThrownCodes : up' = assignmentsFailStep(up, code)
  /\ UNCHANGED <<clientVars, toolVars>>

InitUpcoming ==
  /\ Init
  /\ kind = "pat"

NextUpcoming ==
  \/ ListUpcoming
  \/ TodoResult
  \/ TodoFails
  \/ CoursesResult
  \/ CoursesFails
  \/ AssignmentsResult
  \/ AssignmentsFail

SpecUpcoming == InitUpcoming /\ [][NextUpcoming]_vars

----------------------------------------------------------------------------
(* The list_courses tool *)

\* The tool is called: the handler up to its await of getAll.
ListCourses ==
  /\ lc.stage = "idle"
  /\ \E include_past \in IncludePastArgs, limit \in LimitArgs :
       lc' = [lc EXCEPT !.stage = "fetching", !.include_past = include_past, !.limit = limit]
  /\ UNCHANGED <<clientVars, up, runs, srv, tz>>

\* getAll('/api/v1/users/self/courses') returns data: the rest of the
\* handler.  includePast is args.include_past ?? false.
ListCoursesResult ==
  /\ lc.stage = "fetching"
  /\ \E data \in CourseData, currentYear \in CurrentYears :
       LET includePast == lc.include_past = "true"
           limit == Coalesce(lc.limit, DEFAULT_COURSE_LIMIT)
           mapped == [i \in 1..Len(data) |-> mapCourse(data[i])]
           sorted == sortCoursesByRecency(mapped)
           kept == IF ~includePast THEN filterRecentCourses(sorted, currentYear) ELSE sorted
           courses == IF limit # 0 THEN slice(kept, limit) ELSE kept
       IN lc' = [lc EXCEPT !.stage = "done", !.currentYear = currentYear, !.mapped = mapped,
                           !.kept = kept, !.courses = courses]
  /\ UNCHANGED <<clientVars, up, runs, srv, tz>>

\* getAll('/api/v1/users/self/courses') throws.
ListCoursesFails ==
  /\ lc.stage = "fetching"
  /\ lc' = [lc EXCEPT !.stage = "failed"]
  /\ UNCHANGED <<clientVars, up, runs, srv, tz>>

InitCourses ==
  /\ Init
  /\ kind = "pat"

NextCourses ==
  \/ ListCourses
  \/ ListCoursesResult
  \/ ListCoursesFails

SpecCourses == InitCourses /\ [][NextCourses]_vars

----------------------------------------------------------------------------
(* The HTTP server *)

\* the request is answered and the handler has returned
Respond(route, header, sessionId, status, v) ==
  srv' = [v EXCEPT !.handled = @ + 1,
                   !.last = [route |-> route, header |-> header, sessionId |-> sessionId,
                             status |-> status]]

\* GET /mcp, lines 33-59.  server.connect(transport) starts the event
\* stream (status 200) or throws (status 500, the session stays in the map).
GetMcp ==
  /\ srv.handled < MaxRequests
  /\ \E header \in AuthorizationHeaders, connected \in BOOLEAN :
       LET a == authorize(header, MCP_BEARER)
           sessionId == srv.created + 1
       IN IF ~a.ok THEN Respond("/mcp", header, NULL, a.status, srv)
          ELSE /\ srv.created < MaxSessions
               /\ Respond("/mcp", header, NULL, IF connected THEN 200 ELSE 500,
                          [srv EXCEPT !.sessions = @ \cup {sessionId}, !.created = sessionId])
  /\ UNCHANGED <<clientVars, up, runs, lc, tz>>

\* POST /messages, lines 61-89.  transport.handlePostMessage answers 202 or
\* throws (status 500).
PostMessages ==
  /\ srv.handled < MaxRequests
  /\ \E header \in AuthorizationHeaders, sessionId \in SessionIdArgs, handledOk \in BOOLEAN :
       LET a == authorize(header, MCP_BEARER)
       IN IF ~a.ok THEN Respond("/messages", header, sessionId, a.status, srv)
          ELSE IF sessionId = NULL THEN Respond("/messages", header, sessionId, 400, srv)
          ELSE IF sessionId \notin srv.sessions
          THEN Respond("/messages", header, sessionId, 404, srv)
          ELSE Respond("/messages", header, sessionId, IF handledOk THEN 202 ELSE 500,
                       [srv EXCEPT !.dispatched = @ + 1])
  /\ UNCHANGED <<clientVars, up, runs, lc, tz>>

\* transport.onclose, lines 44-47.
TransportClosed ==
  /\ \E sessionId \in srv.sessions : srv' = [srv EXCEPT !.sessions = @ \ {sessionId}]
  /\ UNCHANGED <<clientVars, up, runs, lc, tz>>

InitServer ==
  /\ Init
  /\ kind = "pat"

NextServer ==
  \/ GetMcp
  \/ PostMessages
  \/ TransportClosed

SpecServer == InitServer /\ [][NextServer]_vars

----------------------------------------------------------------------------
(* The mappers under a configured time zone *)

\* core/timezone.ts is loaded: loadEnv() gives the time zone of the formatter.
LoadTimezone ==
  /\ tz.stage = "unloaded"
  /\ \E zone \in Zones : tz' = [tz EXCEPT !.stage = "loaded", !.zone = zone]
  /\ UNCHANGED <<clientVars, up, runs, lc, srv>>

MapAssignment ==
  /\ tz.stage # "unloaded"
  /\ \E raw \in RawAssignments :
       tz' = [tz EXCEPT !.stage = "assignment", !.raw = raw, !.mapped = mapAssignment(raw)]
  /\ UNCHANGED <<clientVars, up, runs, lc, srv>>

MapFile ==
  /\ tz.stage # "unloaded"
  /\ \E raw \in RawFiles :
       tz' = [tz EXCEPT !.stage = "file", !.raw = raw, !.mapped = mapFile(raw)]
  /\ UNCHANGED <<clientVars, up, runs, lc, srv>>

InitMappers ==
  /\ Init
  /\ kind = "pat"

NextMappers ==
  \/ LoadTimezone
  \/ MapAssignment
  \/ MapFile

SpecMappers == InitMappers /\ [][NextMappers]_vars

----------------------------------------------------------------------------
(* Two runs of list_upcoming over the same upstream collections: every    *)
(* getAll of the second run returns what the same getAll of the first run *)
(* returned.  The runs are called with the same args.days; the second is  *)
(* called at the same time as the first or 1 ms later.                    *)

\* the results a run may return once its loop over the courses has ended
Returns(u) ==
  IF u.stage = "done"
  THEN {[u EXCEPT !.upcoming = sorted] : sorted \in sortResults(u.upcomingMap)}
  ELSE {u}

\* both runs take the step the same upstream answer gives them
BothRuns(ua, ub) ==
  \E ra \in Returns(ua), rb \in Returns(ub) : runs' = [a |-> ra, b |-> rb]

MergeCall ==
  /\ runs.a.stage = "idle"
  /\ \E days \in DaysArgs, later \in {0, 1} :
       BothRuns(callStep(runs.a, days, now), callStep(runs.b, days, now + later))
  /\ UNCHANGED <<clientVars, up, lc, srv, tz>>

MergeTodo ==
  /\ runs.a.stage = "todo"
  /\ \E data \in SeqsUpTo(TodoItems(runs.a), MaxFeed) :
       BothRuns(todoStep(runs.a, data), todoStep(runs.b, data))
  /\ UNCHANGED <<clientVars, up, lc, srv, tz>>

MergeCourses ==
  /\ runs.a.stage = "courses"
  /\ \E data \in CourseLists : BothRuns(coursesStep(runs.a, data), coursesStep(runs.b, data))
  /\ UNCHANGED <<clientVars, up, lc, srv, tz>>

MergeAssignments ==
  /\ runs.a.stage = "assignments"
  /\ \E data \in SeqsUpTo(AssignmentItems(runs.a), MaxFeed) :
       BothRuns(assignmentsStep(runs.a, data), assignmentsStep(runs.b, data))
  /\ UNCHANGED <<clientVars, up, lc, srv, tz>>

\* the assignments of the course at hand are denied to both runs
MergeDenied ==
  /\ runs.a.stage = "assignments"
  /\ BothRuns(assignmentsFailStep(runs.a, "AUTHORIZATION_FAILED"),
              assignmentsFailStep(runs.b, "AUTHORIZATION_FAILED"))
  /\ UNCHANGED <<clientVars, up, lc, srv, tz>>

InitMerge ==
  /\ Init
  /\ kind = "pat"

NextMerge ==
  \/ MergeCall
  \/ MergeTodo
  \/ MergeCourses
  \/ MergeAssignments
  \/ MergeDenied

SpecMerge == InitMerge /\ [][NextMerge]_vars

----------------------------------------------------------------------------
(* mcp/tools.ts: the tool wrapper *)

\* The McpError built from what the handler threw: an AppError gives its
\* message and data {code, ...error.data}, any other Error its message only.
toMcpError(error) ==
  IF error.app
  THEN [message |-> error.message, hasData |-> TRUE, code |-> error.code,
        requestId |-> error.requestId, canvasStatus |-> error.canvasStatus]
  ELSE [message |-> error.message, hasData |-> FALSE, code |-> "none",
        requestId |-> NoRid, canvasStatus |-> NULL]

----------------------------------------------------------------------------
(* Properties of getAll *)

Terminated == pc[Client] \in {"done", "failed"}

ServedRecords == [i \in 1..Len(gh.served) |-> gh.served[i].records]
ServedRids == [i \in 1..Len(gh.served) |-> gh.served[i].rid]

\* C1: when getAll has drained its pages, the data it returns is the
\* concatenation of the record arrays of the pages in the order they were
\* served: nothing is reordered, dropped or duplicated.
C1_DataIsConcatenationOfPages ==
  pc[Client] = "done" => out.data = Concat(ServedRecords)

\* Two different pages were drained.
C1_Witness ==
  /\ pc[Client] = "done"
  /\ Len(gh.served) = 2
  /\ out.data = <<1, 2, 1>>

\* C2 as stated: the request-id sequence has one entry per drained page,
\* whether or not the page carried an x-request-id header.
C2_OneRequestIdPerPage ==
  pc[Client] = "done" => Len(out.requestIds) = Len(gh.served)

\* C2 amended: the request-id sequence is the sequence of the x-request-id
\* headers of the drained pages that carried one, in page order; it has one
\* entry per page exactly when every page carried the header.
C2_RequestIdsOfPagesWithHeader ==
  pc[Client] = "done" => out.requestIds = SelectSeq(ServedRids, Truthy)

\* Two pages were drained and only the second carried a request id.
C2_Witness ==
  /\ pc[Client] = "done"
  /\ Len(gh.served) = 2
  /\ ~Truthy(gh.served[1].rid)
  /\ Truthy(gh.served[2].rid)
  /\ Len(out.requestIds) = 1

----------------------------------------------------------------------------
(* Properties of the OAuth strategy under concurrent callers *)

\* performRefresh calls in progress
InFlight == {p \in Procs : exch[p].stage \in {"fetch", "sleep"}}

\* C3: single-flight refresh: at most one token exchange is in progress at
\* any time, and every caller suspended in refreshTokenPair awaits that one
\* exchange, the promise held in this.refreshing.
C3_SingleFlight ==
  /\ Cardinality(InFlight) <= 1
  /\ \A p \in Procs :
       (awaiting[p] # NoProc /\ p \notin ready)
         => (awaiting[p] = auth.refreshing /\ auth.refreshing \in InFlight)

\* Two callers await the same token exchange while it is in flight.
C3_Witness ==
  \E p, q \in Procs :
    /\ p # q
    /\ exch[p].stage = "fetch"
    /\ awaiting[p] = p
    /\ awaiting[q] = p
    /\ ready = {}

\* C4 as stated: a credential with a known expiry is never returned with
\* less than 60 seconds of real validity left, whatever lifetime was reported.
C4_NeverBelowMargin ==
  handed.known => handed.remaining >= REFRESH_MARGIN_MS

\* C4 amended: a cached credential with a known expiry is never returned
\* with less than 60 seconds of validity left; a credential obtained by a
\* refresh the call itself awaited is returned as soon as that refresh
\* completes, with its whole reported lifetime left, be it shorter than 60
\* seconds or not.
C4_CachedNeverBelowMargin ==
  /\ (handed.known /\ ~handed.fresh) => handed.remaining >= REFRESH_MARGIN_MS
  /\ (handed.known /\ handed.fresh) => handed.remaining = tokMeta.lifetime * 1000

\* A cached credential with a known expiry is returned some time after it
\* was obtained.
C4_Witness ==
  /\ handed.known
  /\ ~handed.fresh
  /\ handed.tok # NoToken
  /\ now > tokMeta.issuedAt

----------------------------------------------------------------------------
(* Properties of fetchWithRetry *)

StageRank ==
  CASE pc[Client] = "init" -> 0
    [] pc[Client] = "gah1" -> 1
    [] pc[Client] = "gah2" -> 2
    [] pc[Client] = "fetching" -> 3
    [] pc[Client] = "hu" -> 4
    [] pc[Client] = "sleeping" -> 5
    [] OTHER -> 6

\* How far the call has got: pages drained, then attempts of the current
\* logical request, then the await reached within the attempt; a call that
\* has ended ranks above all.
Rank ==
  IF Terminated THEN (MaxPages + 1) * 64
  ELSE Len(gh.served) * 64 + cl.attempt * 8 + StageRank

\* C5: retry ceiling: one logical request (one page) is never sent more than
\* maxRetries + 1 = 4 times, whatever mix of 401, 429, 5xx and transport
\* failures the upstream produces, and the loop terminates: every step of
\* the call takes it strictly further towards its end (a bounded rank
\* grows), so it cannot retry forever.
C5_RetryCeiling ==
  [][ /\ gh'.physical <= DEFAULT_MAX_RETRIES + 1
      /\ cl'.attempt <= DEFAULT_MAX_RETRIES
      /\ (pc'[Client] # pc[Client] \/ cl' # cl) => Rank' > Rank ]_vars

\* A logical request used its three retries and the call ended.
C5_Witness ==
  /\ Terminated
  /\ gh.physical = DEFAULT_MAX_RETRIES + 1
  /\ cl.attempt = DEFAULT_MAX_RETRIES

\* C6: when the upstream answered 503 to the first attempt and to each of
\* the 3 retries, the call fails with code CANVAS_UNAVAILABLE, and the error
\* carries status 503 and the request id of the last physical response.
C6_Persistent503 ==
  (gh.seen = {503} /\ gh.physical = DEFAULT_MAX_RETRIES + 1 /\ pc[Client] # "fetching")
    => /\ pc[Client] = "failed"
       /\ out.app
       /\ out.code = "CANVAS_UNAVAILABLE"
       /\ out.canvasStatus = 503
       /\ out.requestId = cl.resp.rid

\* Four 503 answers, the last one carrying a request id.
C6_Witness ==
  /\ pc[Client] = "failed"
  /\ gh.seen = {503}
  /\ gh.physical = DEFAULT_MAX_RETRIES + 1
  /\ out.requestId = cl.nextUrl * 10 + 4

\* C7: when a 429 or 5xx response carries retry-after: s (seconds) and
\* retries remain, the delay before the next physical request is exactly
\* s * 1000 ms: not the exponential backoff value, not capped at 5000 ms.
C7_RetryAfterHonoured ==
  (pc[Client] = "sleeping" /\ shouldRetry(cl.resp.status) /\ cl.resp.retryAfter.k = "sec")
    => cl.sleepMs = cl.resp.retryAfter.v * 1000

\* A 429 with retry-after: 7 is followed by a sleep of 7000 ms.
C7_Witness ==
  /\ pc[Client] = "sleeping"
  /\ cl.resp.status = 429
  /\ cl.resp.retryAfter = [k |-> "sec", v |-> 7]
  /\ cl.sleepMs = 7000

NonRetryable(s) == s # 0 /\ ~ResponseOk(s) /\ s # 401 /\ s # 429 /\ ~(s >= 500 /\ s < 600)

ErrorCodes ==
  {"AUTHORIZATION_FAILED", "NOT_FOUND", "RATE_LIMITED", "CANVAS_UNAVAILABLE",
   "BAD_REQUEST", "UNKNOWN"}

\* C8: a non-success response that is not 401, 429 or 5xx is never retried:
\* once it is received the call has failed with a classified error of that
\* status, and if it answered the first attempt exactly one physical request
\* was made.
C8_ClientErrorsNotRetried ==
  \A s \in gh.seen :
    NonRetryable(s)
      => /\ pc[Client] = "failed"
         /\ out.app
         /\ out.code \in ErrorCodes
         /\ out.canvasStatus = s
         /\ gh.seen = {s} => gh.physical = 1

\* A 404 on the first attempt failed the call after one physical request.
C8_Witness ==
  /\ pc[Client] = "failed"
  /\ gh.seen = {404}
  /\ gh.physical = 1
  /\ out.code = "NOT_FOUND"

\* C9: with the static-token strategy every credential is the configured
\* token, and a 401 is fatal: once it is received the call has failed with
\* code AUTHORIZATION_FAILED without a retry, after exactly one physical
\* request if it answered the first attempt.
C9_PatUnauthorizedIsFatal ==
  kind = "pat"
    => /\ handed # NoHdr => handed.tok = PatToken
       /\ pc[Client] = "fetching" => cl.sentTok = PatToken
       /\ 401 \in gh.seen
            => /\ pc[Client] = "failed"
               /\ out.app
               /\ out.code = "AUTHORIZATION_FAILED"
               /\ gh.seen = {401} => gh.physical = 1

\* With the static token a 401 on the first attempt failed the call.
C9_Witness ==
  /\ kind = "pat"
  /\ pc[Client] = "failed"
  /\ gh.seen = {401}
  /\ gh.physical = 1
  /\ cl.sentTok = PatToken

\* C10 as stated: with the refreshable strategy a 401 starts a token refresh
\* whatever the cached expiry; when handleUnauthorized is over, either the
\* refresh gave a usable token and retries remain, and the same URL is
\* requested again with the new token, or the 401 is classified as
\* AUTHORIZATION_FAILED.
C10_UnauthorizedRefreshOrFail ==
  [][ /\ (kind = "oauth" /\ pc[Client] = "fetching" /\ 401 \in gh'.seen \ gh.seen)
        => (pc'[Client] = "hu" /\ auth'.refreshing # NoProc)
      /\ (kind = "oauth" /\ pc[Client] = "hu" /\ pc'[Client] # "hu")
        => IF resume[Client] = "ok" /\ Truthy(auth.accessToken)
              /\ cl.attempt < DEFAULT_MAX_RETRIES
           THEN /\ pc'[Client] \in {"fetching", "gah1"}
                /\ cl'.nextUrl = cl.nextUrl
                /\ pc'[Client] = "fetching"
                     => (cl'.sentTok = auth.accessToken /\ cl'.sentTok # cl.sentTok)
           ELSE /\ pc'[Client] = "failed"
                /\ out'.app
                /\ out'.code = "AUTHORIZATION_FAILED" ]_vars

\* C11 as stated: a rejected token exchange is fatal to the logical request
\* that awaited it: once the client has seen a refresh rejected while
\* fetching a page (gh.stale is the access token that was cached then), no
\* physical request for that page carries that stale token.
C11_NoRequestWithStaleToken ==
  (pc[Client] = "fetching" /\ Truthy(gh.stale)) => cl.sentTok # gh.stale

C13_CancellationUnwinds ==
  [][ cl.aborted
        => /\ ~(pc[Client] # "sleeping" /\ pc'[Client] = "sleeping")
           /\ gh'.physical <= gh.physical ]_vars

----------------------------------------------------------------------------
(* Properties of the error classification *)

\* fetchWithRetry returned a non-success response to getAll, which threw.
TerminalStatus ==
  IF pc[Client] = "failed" /\ cl.resp.status # NULL /\ ~ResponseOk(cl.resp.status)
  THEN cl.resp.status ELSE NULL

\* C14: a terminal upstream status 400 gives code BAD_REQUEST, 401 and 403
\* give AUTHORIZATION_FAILED, 404 gives NOT_FOUND, 429 gives RATE_LIMITED and
\* every status >= 500 gives CANVAS_UNAVAILABLE with client HTTP status 503;
\* the error keeps the upstream status.
C14_ListedStatusesClassified ==
  TerminalStatus # NULL
    => LET s == TerminalStatus
       IN /\ out.app
          /\ out.canvasStatus = s
          /\ s = 400 => out.code = "BAD_REQUEST"
          /\ s \in {401, 403} => out.code = "AUTHORIZATION_FAILED"
          /\ s = 404 => out.code = "NOT_FOUND"
          /\ s = 429 => out.code = "RATE_LIMITED"
          /\ s >= 500 => (out.code = "CANVAS_UNAVAILABLE" /\ out.httpStatus = 503)

\* A 500 answered the first attempt and each retry, and was classified.
C14_Witness ==
  /\ TerminalStatus = 500
  /\ gh.seen = {500}
  /\ gh.physical = DEFAULT_MAX_RETRIES + 1
  /\ out.code = "CANVAS_UNAVAILABLE"
  /\ out.httpStatus = 503

\* C15 as stated: a terminal non-success status below 500 that is none of
\* 400, 401, 403, 404, 429 (402, 409, 422) is classified as UNKNOWN, not as
\* CANVAS_UNAVAILABLE.
C15_UnlistedStatusIsUnknown ==
  (TerminalStatus # NULL /\ TerminalStatus < 500
     /\ TerminalStatus \notin {400, 401, 403, 404, 429})
    => out.code = "UNKNOWN"

\* C17 as stated: for a terminal status 401, 403, 404, 429 or 5xx the message
\* of the error is the fixed message of the table for that status, whatever
\* the upstream error body contains.
C17_FixedMessage ==
  LET s == TerminalStatus
  IN /\ s \in {401, 403} => out.message = "Authorization failed: check Canvas token/scopes."
     /\ s = 404 => out.message = "Not found: course or assignment id."
     /\ s = 429 => out.message = "Rate limited by Canvas; retry later."
     /\ (s >= 500 /\ s < 600) => out.message = "Canvas temporarily unavailable."

\* C16 as stated: every tool failure caused by the upstream, an HTTP error
\* response or a transport failure after the retries, reaches the caller as
\* an MCP error whose data holds the error code, the last upstream status
\* and the request id of the last response when it carried one.
C16_McpErrorCarriesContext ==
  (pc[Client] = "failed" /\ (TerminalStatus # NULL \/ out.message = "fetch failed"))
    => LET m == toMcpError(out)
       IN /\ m.hasData
          /\ m.code \in ErrorCodes
          /\ TerminalStatus # NULL
                => (m.canvasStatus = TerminalStatus /\ m.requestId = cl.resp.rid)

----------------------------------------------------------------------------
(* Properties of list_upcoming *)

\* e is an element of the sequence es
InSeq(e, es) == \E i \in 1..Len(es) : es[i] = e

\* C18: whatever the to-do feed and the assignment feeds hold, ids repeated
\* within one feed or across feeds included, upcomingMap and the result of
\* list_upcoming hold at most one entry per assignment id, and the result
\* holds the entries of the map.
C18_AtMostOneEntryPerId ==
  /\ \A i, j \in 1..Len(up.upcomingMap) :
       up.upcomingMap[i].id = up.upcomingMap[j].id => i = j
  /\ \A i, j \in 1..Len(up.upcoming) :
       up.upcoming[i].id = up.upcoming[j].id => i = j
  /\ up.stage = "done" => \A e \in [id : Ids, course_id : Courses \cup {0},
                                      due_at : DueDates(up), source : {"todo", "assignment"}] :
                            InSeq(e, up.upcoming) <=> InSeq(e, up.upcomingMap)

\* The to-do feed admitted one id twice, the last assignment feed admitted
\* that id twice again, and the result holds it once.
C18_Witness ==
  /\ up.stage = "done"
  /\ up.feed.source = "assignment"
  /\ Len(up.feed.admitted) = 2
  /\ up.feed.admitted[1].id = up.feed.admitted[2].id
  /\ Len(up.afterTodo) = 1
  /\ up.afterTodo[1].id = up.feed.admitted[1].id
  /\ Len(up.upcoming) = 1

\* C19: an entry admitted from the to-do feed is never overwritten: the
\* entry the to-do loop left in the map for an id stays in the map with its
\* provenance 'todo' and its field values through every assignment feed,
\* and is in the result.
C19_TodoEntryNeverOverwritten ==
  \A i \in 1..Len(up.afterTodo) :
    /\ up.afterTodo[i].source = "todo"
    /\ InSeq(up.afterTodo[i], up.upcomingMap)
    /\ up.stage = "done" => InSeq(up.afterTodo[i], up.upcoming)

\* An assignment feed admitted an id of the to-do feed with another due
\* date, and the result holds the to-do's entry.
C19_Witness ==
  /\ up.stage = "done"
  /\ up.feed.source = "assignment"
  /\ \E i \in 1..Len(up.afterTodo), j \in 1..Len(up.feed.admitted) :
       /\ up.feed.admitted[j].id = up.afterTodo[i].id
       /\ up.feed.admitted[j].due_at # up.afterTodo[i].due_at
       /\ up.feed.admitted[j].due_at # NULL
       /\ InSeq(up.afterTodo[i], up.upcoming)

\* the feed just processed admitted the item it (of id and due date d)
AdmittedItem(it) ==
  \E j \in 1..Len(up.feed.admitted) :
    up.feed.admitted[j].id = it.id /\ up.feed.admitted[j].due_at = it.due_at

\* the items with a due date of the feed just processed
DatedItems ==
  {up.feed.items[k] : k \in {n \in 1..Len(up.feed.items) : up.feed.items[n].due_at # NULL}}

\* C20: rangeEnd is now + days * 24 h, and an item with a due date d, of
\* the to-do feed or of an assignment feed, is admitted iff
\* now <= d <= rangeEnd: d = now and d = rangeEnd are admitted, d = now - 1 ms
\* and d = rangeEnd + 1 ms are not.
C20_HorizonBoundary ==
  /\ up.stage # "idle"
       => up.rangeEnd = up.now + Coalesce(up.days, DEFAULT_RANGE_DAYS) * 24 * 60 * 60 * 1000
  /\ \A it \in DatedItems :
       /\ AdmittedItem(it) <=> (up.now <= it.due_at /\ it.due_at <= up.rangeEnd)
       /\ it.due_at \in {up.now, up.rangeEnd} => AdmittedItem(it)
       /\ it.due_at \in {up.now - 1, up.rangeEnd + 1} => ~AdmittedItem(it)

\* An assignment feed held an item due at rangeEnd, which was admitted, and
\* an item due 1 ms later, which was not.
C20_Witness ==
  /\ up.feed.source = "assignment"
  /\ Len(up.feed.items) = 2
  /\ up.feed.items[1].due_at = up.rangeEnd
  /\ up.feed.items[2].due_at = up.rangeEnd + 1
  /\ Len(up.feed.admitted) = 1
  /\ up.feed.admitted[1].due_at = up.rangeEnd

\* C21: the result of list_upcoming is sorted ascending by due date, a null
\* due date counting as later than every date: of two adjacent entries the
\* first is not due after the second, and every entry without a due date
\* comes after every entry that has one.
C21_SortedByDueDate ==
  up.stage = "done" =>
    /\ \A i \in 1..(Len(up.upcoming) - 1) :
         LET a == up.upcoming[i]
             b == up.upcoming[i + 1]
         IN /\ (a.due_at # NULL /\ b.due_at # NULL) => a.due_at <= b.due_at
            /\ a.due_at = NULL => b.due_at = NULL
    /\ \A i, j \in 1..Len(up.upcoming) :
         (up.upcoming[i].due_at = NULL /\ up.upcoming[j].due_at # NULL) => j < i

\* The last assignment feed put an entry without a due date into the map
\* before a dated one, and the result has the dated entry first.
C21_Witness ==
  /\ up.stage = "done"
  /\ up.feed.source = "assignment"
  /\ Len(up.feed.admitted) = 2
  /\ up.feed.admitted[1].due_at = NULL
  /\ up.feed.admitted[2].due_at # NULL
  /\ up.upcomingMap = up.feed.admitted
  /\ Len(up.upcoming) = 2
  /\ up.upcoming[1] = up.feed.admitted[2]
  /\ up.upcoming[2] = up.feed.admitted[1]

CourseSkipped == up.stage = "assignments" /\ up'.skipped # up.skipped

\* C23: when fetching the assignments of one course fails with
\* AUTHORIZATION_FAILED, that course is skipped and nothing else is lost: the
\* map is left as it was, the handler goes on with the next course, and the
\* result holds the entries of the to-do feed and of the courses fetched
\* after it.  When it fails with any other error the handler fails with
\* that error and returns no result.
C23_PartialFailure ==
  /\ [][(CourseSkipped =>
            /\ up'.error = "AUTHORIZATION_FAILED"
            /\ up'.skipped = up.skipped \cup {Head(up.courses)}
            /\ up'.upcomingMap = up.upcomingMap
            /\ up'.courses = Tail(up.courses)
            /\ up'.stage = IF up'.courses = <<>> THEN "done" ELSE "assignments")
          /\ ((up.stage = "assignments" /\ up'.stage = "failed") =>
                /\ up'.error # "AUTHORIZATION_FAILED"
                /\ up'.upcoming = <<>>)]_vars
  /\ [](up.stage = "done" =>
          /\ \A i \in 1..Len(up.afterTodo) : InSeq(up.afterTodo[i], up.upcoming)
          /\ \A j \in 1..Len(up.feed.admitted) :
               \E i \in 1..Len(up.upcoming) : up.upcoming[i].id = up.feed.admitted[j].id)
  /\ [](up.stage = "failed" => up.upcoming = <<>>)

\* The first course was skipped, and the result holds the entry of the
\* to-do feed and the entry of the second course.
C23_Witness ==
  /\ up.stage = "done"
  /\ Cardinality(up.skipped) = 1
  /\ up.error = "AUTHORIZATION_FAILED"
  /\ up.feed.source = "assignment"
  /\ up.feed.course \notin up.skipped
  /\ Len(up.feed.admitted) = 1
  /\ Len(up.afterTodo) = 1
  /\ Len(up.upcoming) = 2
  /\ InSeq(up.afterTodo[1], up.upcoming)
  /\ InSeq(up.feed.admitted[1], up.upcoming)

----------------------------------------------------------------------------
(* Properties of list_courses *)

\* the year of a course: that of its term label, else that of its course code
YearOf(c) ==
  IF extractYear(c.term) # NULL THEN extractYear(c.term) ELSE extractYear(c.course_code)

\* a may stand before b in the result
RanksBefore(a, b) ==
  LET sa == courseRecencyInfo(a).season
      sb == courseRecencyInfo(b).season
  IN \/ YearOf(a) # NULL /\ YearOf(b) = NULL
     \/ YearOf(a) # NULL /\ YearOf(b) # NULL /\ YearOf(a) > YearOf(b)
     \/ /\ YearOf(a) = YearOf(b)
        /\ \/ sa > sb
           \/ sa = sb /\ localeCompare(a.name, b.name) <= 0

\* C24: the result of list_courses is ordered descending by extracted
\* year, then descending by season rank, then ascending by name, and a
\* course without an extractable year stands after every course with one.
C24_CourseOrdering ==
  lc.stage = "done" =>
    /\ \A i, j \in 1..Len(lc.courses) : i < j => RanksBefore(lc.courses[i], lc.courses[j])
    /\ \A i, j \in 1..Len(lc.kept) : i < j => RanksBefore(lc.kept[i], lc.kept[j])
    /\ \A i, j \in 1..Len(lc.courses) :
         (YearOf(lc.courses[i]) = NULL /\ YearOf(lc.courses[j]) # NULL) => j < i

\* Canvas returned a course without a year, an older course and a newer
\* course, in this order, and the result has them reversed.
C24_Witness ==
  /\ lc.stage = "done"
  /\ Len(lc.mapped) = 3
  /\ lc.courses = <<lc.mapped[3], lc.mapped[2], lc.mapped[1]>>
  /\ YearOf(lc.mapped[1]) = NULL
  /\ YearOf(lc.mapped[2]) # NULL
  /\ YearOf(lc.mapped[3]) > YearOf(lc.mapped[2])

\* the course c that Canvas returned is not in seq
Dropped(c, seq) == ~InSeq(c, seq)

\* C25: with include_past false or absent a course is dropped by the
\* recency filter iff its year (of the term label, else of the course code)
\* is present and less than current_year - 1, so a course without a year is
\* kept; with include_past true the filter drops nothing.
C25_RecencyFilter ==
  lc.stage = "done" =>
    \A i \in 1..Len(lc.mapped) :
      LET c == lc.mapped[i]
      IN IF lc.include_past = "true"
         THEN ~Dropped(c, lc.kept)
         ELSE /\ Dropped(c, lc.kept) <=> (YearOf(c) # NULL /\ YearOf(c) < lc.currentYear - 1)
              /\ YearOf(c) = NULL => ~Dropped(c, lc.kept)

\* include_past is absent; a course of the year before last was dropped, a
\* course without a year was kept, and so was a course whose term label
\* names last year and whose course code names an older year.
C25_Witness ==
  /\ lc.stage = "done"
  /\ lc.include_past = "undefined"
  /\ \E i, j, k \in 1..Len(lc.mapped) :
       /\ YearOf(lc.mapped[i]) = lc.currentYear - 2
       /\ Dropped(lc.mapped[i], lc.kept)
       /\ YearOf(lc.mapped[j]) = NULL
       /\ InSeq(lc.mapped[j], lc.kept)
       /\ extractYear(lc.mapped[k].term) = lc.currentYear - 1
       /\ extractYear(lc.mapped[k].course_code) < lc.currentYear - 1
       /\ InSeq(lc.mapped[k], lc.kept)

\* the label the season of a course is taken from: its term label if that
\* holds a keyword of the table, else its course code
SeasonLabel(c) ==
  toLowerCase(IF \E k \in 1..Len(TERM_ORDER) : includes(toLowerCase(c.term), TERM_ORDER[k].keyword)
              THEN c.term ELSE c.course_code)

HasKeyword(c, k) == includes(SeasonLabel(c), TERM_ORDER[k].keyword)

\* C26: the season rank of a course is the rank the keyword table gives its
\* label (winter 1, spring 2, summer 3, fall 4, autumn 4, fall-winter 5;
\* none 0), the term label first and the course code if the term label
\* holds no keyword; a label that holds 'fall-winter' has rank 5, and its
\* course stands before a 'Fall' course of the same year.
C26_SeasonRankFollowsTable ==
  lc.stage = "done" =>
    /\ \A i \in 1..Len(lc.mapped) :
         LET c == lc.mapped[i]
             season == courseRecencyInfo(c).season
         IN /\ HasKeyword(c, 6) => season = 5
            /\ \A k \in 1..5 :
                 (HasKeyword(c, k) /\ \A n \in 1..6 : n # k => ~HasKeyword(c, n))
                   => season = TERM_ORDER[k].rank
            /\ (\A k \in 1..6 : ~HasKeyword(c, k)) => season = 0
    /\ \A i, j \in 1..Len(lc.kept) :
         (/\ HasKeyword(lc.kept[i], 6)
          /\ HasKeyword(lc.kept[j], 4) /\ ~HasKeyword(lc.kept[j], 6)
          /\ YearOf(lc.kept[i]) = YearOf(lc.kept[j]))
           => i < j

\* C27: the result of list_courses is the first min(limit, n) courses of
\* the ordered and filtered sequence of n courses, limit being 20 when
\* args.limit is absent: never more than limit courses, and no course is
\* left out that stands before a returned one.
C27_Truncation ==
  lc.stage = "done" =>
    LET limit == IF lc.limit = NULL THEN 20 ELSE lc.limit
        n == Len(lc.kept)
    IN /\ Len(lc.courses) = Min(limit, n)
       /\ Len(lc.courses) <= limit
       /\ \A i \in 1..Len(lc.courses) : lc.courses[i] = lc.kept[i]

\* Three courses passed the filter, the limit is 2, and the result is the
\* first two of them.
C27_Witness ==
  /\ lc.stage = "done"
  /\ lc.limit = 2
  /\ Len(lc.kept) = 3
  /\ lc.courses = <<lc.kept[1], lc.kept[2]>>

----------------------------------------------------------------------------
(* Properties of the HTTP server *)

\* the Authorization header names the Bearer scheme
IsBearer(header) ==
  /\ header # NoString
  /\ Len(header) >= 7
  /\ SubSeq(header, 1, 7) = <<"B", "e", "a", "r", "e", "r", " ">>

\* the token a Bearer header carries
TokenOf(header) == trim(SubSeq(header, 8, Len(header)))

\* C28: a request to /mcp or /messages whose Authorization header is
\* missing or is not a Bearer header is answered 401, one whose Bearer token
\* is not the configured token is answered 403, and in both cases no
\* session is created and no message is handed to a transport.
C28_UnauthorizedRejected ==
  [][srv'.handled = srv.handled + 1 =>
       LET r == srv'.last
           rejected == /\ srv'.sessions = srv.sessions
                       /\ srv'.created = srv.created
                       /\ srv'.dispatched = srv.dispatched
       IN /\ ~IsBearer(r.header) => (r.status = 401 /\ rejected)
          /\ (IsBearer(r.header) /\ TokenOf(r.header) # MCP_BEARER)
               => (r.status = 403 /\ rejected)]_vars

\* A POST to /messages that names an open session with a wrong token was
\* answered 403 and nothing was dispatched.
C28_Witness ==
  /\ srv.last.route = "/messages"
  /\ srv.last.status = 403
  /\ srv.last.sessionId \in srv.sessions
  /\ srv.dispatched = 0

----------------------------------------------------------------------------
(* Properties of the mappers *)

\* C29: for an assignment with a valid ISO due_at, mapAssignment returns
\* due_at converted to the configured time zone with its UTC offset (under
\* America/Los_Angeles 2024-12-01T08:00:00Z becomes
\* 2024-12-01T00:00:00-08:00), and mapFile does the same for created_at and
\* updated_at.
C29_MappersLocalize ==
  /\ (tz.stage = "assignment" /\ tz.raw.due_at.k = "iso")
       => tz.mapped.due_at = toCanvasTimezone(tz.raw.due_at, tz.zone)
  /\ (/\ tz.stage = "assignment"
      /\ tz.zone = "America/Los_Angeles"
      /\ tz.raw.due_at = Iso(12, 1, 8, 0, 0, <<"Z">>))
       => tz.mapped.due_at = Iso(12, 1, 0, 0, 0, <<"-", "0", "8", ":", "0", "0">>)
  /\ tz.stage = "file"
       => /\ tz.mapped.created_at = toCanvasTimezone(tz.raw.created_at, tz.zone)
          /\ tz.mapped.updated_at = toCanvasTimezone(tz.raw.updated_at, tz.zone)

----------------------------------------------------------------------------
(* The retry ceiling and the pages of one getAll *)

\* C30: the attempt counter of fetchWithRetry counts the retries of the
\* page being fetched only: every page starts at attempt 0, so while a page
\* is fetched or waited for, attempt is one less than the physical requests
\* made for this page, whatever the pages before it consumed, and every
\* page has the whole ceiling of retries.
C30_CeilingPerPage ==
  /\ [][(Len(gh'.served) = Len(gh.served) + 1 /\ pc'[Client] \in {"fetching", "sleeping"})
          => cl'.attempt = 0]_vars
  /\ [](pc[Client] \in {"fetching", "sleeping"}
          => /\ cl.attempt + 1 = gh.physical
             /\ cl.attempt <= maxRetries)

\* The first page was served by its fourth physical request, after three
\* retries, and the second page is at its fourth physical request too.
C30_Witness ==
  /\ Len(gh.served) = 1
  /\ gh.served[1].rid = 10 + (DEFAULT_MAX_RETRIES + 1)
  /\ pc[Client] = "fetching"
  /\ cl.attempt = DEFAULT_MAX_RETRIES
  /\ gh.physical = DEFAULT_MAX_RETRIES + 1

----------------------------------------------------------------------------
(* Backoff delays *)

\* C31: the delay computed before a retry is never negative, whatever the
\* retry-after header of the response was (a negative number of seconds and
\* an HTTP date in the past included).
C31_DelayNeverNegative ==
  pc[Client] = "sleeping" => cl.sleepMs >= 0

\* delay lies between 0.5 * base and min(1.5 * base, 5000), base = 500 * 2^attempt
WithinBackoff(delay, attempt) ==
  LET base == 500 * Pow2(attempt)
  IN /\ delay >= base \div 2
     /\ delay <= Min((3 * base) \div 2, 5000)
     /\ delay <= 5000

\* C32: without a retry-after hint the delay before retry number attempt + 1
\* lies between 0.5 * base and min(1.5 * base, 5000) ms, base = 500 * 2^attempt:
\* for the delay the call is sleeping for, and for the delay retryDelay
\* computes at every attempt from 0 up to the retry ceiling.
C32_BackoffBounds ==
  /\ (pc[Client] = "sleeping" /\ parseRetryAfter(cl.resp.retryAfter).isNull)
       => WithinBackoff(cl.sleepMs, cl.attempt)
  /\ \A attempt \in 0..maxRetries, rand \in Jitters :
       WithinBackoff(retryDelay(attempt, RetryAfterNone, rand), attempt)

\* The third retry after 503 responses without usable retry-after header is
\* delayed by 2000 * 1.498 = 2996 ms.
C32_Witness ==
  /\ pc[Client] = "sleeping"
  /\ cl.resp.status = 503
  /\ cl.resp.retryAfter.k = "junk"
  /\ cl.attempt = 2
  /\ cl.sleepMs = 2996

----------------------------------------------------------------------------
(* Pagination order *)

\* The call is between its first request and its return.
Running == pc[Client] \notin {"init", "done", "failed"}

\* C33: within one getAll call pages are fetched strictly in sequence.  While
\* the call runs, the one request it has issued or is about to issue is the
\* one for the page after the pages served, every served page named the next
\* one in its link header, and the records of all of them are appended.  A
\* page is served only by a success response to the request in flight, its
\* records are appended in that step, and the call goes on to the next page
\* exactly when the link header of the page has a next relation: it ends at
\* the first page without one.
C33_PagesInSequence ==
  /\ [][Len(gh'.served) # Len(gh.served)
          => /\ pc[Client] = "fetching"
             /\ Len(gh'.served) = Len(gh.served) + 1
             /\ ResponseOk(cl'.status)
             /\ cl'.results = cl.results \o gh'.served[Len(gh'.served)].records
             /\ LET next == gh'.served[Len(gh'.served)].next
                IN /\ (pc'[Client] = "done") = (next = NULL)
                   /\ next # NULL => /\ pc'[Client] = "fetching"
                                     /\ cl'.nextUrl = next
                                     /\ gh'.physical = 1]_vars
  /\ [](Running => /\ cl.nextUrl = Len(gh.served) + 1
                   /\ \A k \in 1..Len(gh.served) : gh.served[k].next = k + 1
                   /\ cl.results = Concat(ServedRecords))
  /\ [](pc[Client] = "done"
          => /\ gh.served # <<>>
             /\ \A k \in 1..Len(gh.served) :
                  (gh.served[k].next = NULL) = (k = Len(gh.served)))

\* Page 1 was served at the second request, page 2 had no next relation and
\* ended the call.
C33_Witness ==
  /\ pc[Client] = "done"
  /\ Len(gh.served) = 2
  /\ gh.served[1].rid = 12
  /\ gh.served[1].next = 2
  /\ gh.served[2].next = NULL
  /\ out.data = gh.served[1].records \o gh.served[2].records

----------------------------------------------------------------------------
(* The token state of the OAuth strategy *)

\* this.accessToken, this.refreshToken, this.tokenExpiresAt
TokenFields(a) == <<a.accessToken, a.refreshToken, a.tokenExpiresAt>>

\* C34: after construction the cached access token, the refresh token and
\* the expiry instant are written only while a single-flight refresh is in
\* flight: by the step that processes the response to the token request of
\* the exchange this.refreshing holds, and the slot still holds it afterwards.
C34_TokenWritesInsideRefresh ==
  [][TokenFields(auth') # TokenFields(auth)
       => /\ auth.refreshing # NoProc
          /\ exch[auth.refreshing].stage = "fetch"
          /\ auth'.refreshing = auth.refreshing]_vars

\* An exchange has replaced all three fields while another caller awaits it.
C34_Witness ==
  /\ auth.refreshing # NoProc
  /\ exch[auth.refreshing].stage = "ok"
  /\ auth.accessToken = 2
  /\ auth.refreshToken = 2
  /\ auth.tokenExpiresAt # NULL
  /\ \E q \in Procs : q # auth.refreshing /\ awaiting[q] = auth.refreshing

\* C35: after a successful token exchange that reported lifetime L seconds
\* the stored expiry instant is the time of the refresh + max(L - 60, 0)
\* seconds, never earlier than the time of the refresh; when no lifetime was
\* reported the expiry is unknown (null), shouldRefreshSoon is false and a
\* call of getAuthorizationHeader that finds a cached token starts no exchange.
C35_ExpiryFromLifetime ==
  /\ [](tokMeta.lifetime # NoLifetime
          => /\ auth.tokenExpiresAt = tokMeta.issuedAt + Max(tokMeta.lifetime - 60, 0) * 1000
             /\ auth.tokenExpiresAt >= tokMeta.issuedAt)
  /\ [](tokMeta.lifetime = NoLifetime
          => /\ auth.tokenExpiresAt = NULL
             /\ ~shouldRefreshSoon(auth))
  /\ [][(auth.tokenExpiresAt = NULL /\ Truthy(auth.accessToken)
           /\ auth.refreshing = NoProc /\ auth'.refreshing # NoProc)
          => pc'[auth'.refreshing] = "hu"]_vars

\* A lifetime of 30 seconds was reported: the expiry is the time of the
\* refresh itself.
C35_Witness ==
  /\ tokMeta.lifetime = 30
  /\ tokMeta.issuedAt > StartNow
  /\ auth.tokenExpiresAt = tokMeta.issuedAt
  /\ Truthy(auth.accessToken)

----------------------------------------------------------------------------
(* Entries without a due date *)

\* C36: null due dates are treated asymmetrically by the merge.  An item
\* without due date of an assignment feed is admitted whatever the horizon
\* (and its id is in the map afterwards), an item without due date of the
\* to-do feed is discarded, so every entry without due date of the map and
\* of the result has provenance 'assignment'.
C36_NullDueDatesAsymmetric ==
  /\ \A k \in 1..Len(up.feed.items) :
       up.feed.items[k].due_at = NULL
         => /\ up.feed.source = "assignment"
                 => /\ AdmittedItem(up.feed.items[k])
                    /\ MapHas(up.upcomingMap, up.feed.items[k].id)
            /\ up.feed.source = "todo" => ~AdmittedItem(up.feed.items[k])
  /\ \A i \in 1..Len(up.upcomingMap) :
       up.upcomingMap[i].due_at = NULL => up.upcomingMap[i].source = "assignment"
  /\ \A i \in 1..Len(up.upcoming) :
       up.upcoming[i].due_at = NULL => up.upcoming[i].source = "assignment"

\* With days = 1 the last assignment feed held an item without due date
\* and one due after rangeEnd: the result holds the first only.
C36_Witness ==
  /\ up.stage = "done"
  /\ up.days = 1
  /\ up.feed.source = "assignment"
  /\ Len(up.feed.items) = 2
  /\ up.feed.items[1].due_at = NULL
  /\ up.feed.items[2].due_at = up.rangeEnd + 1
  /\ up.feed.items[1].id # up.feed.items[2].id
  /\ Len(up.upcoming) = 1
  /\ up.upcoming[1].due_at = NULL
  /\ up.upcoming[1].source = "assignment"

\* The to-do feed held an item with an assignment and no due date, which
\* was discarded.
C36_WitnessTodo ==
  /\ up.stage = "courses"
  /\ up.feed.source = "todo"
  /\ Len(up.feed.items) = 1
  /\ up.feed.items[1].hasAssignment
  /\ up.feed.items[1].due_at = NULL
  /\ up.upcomingMap = <<>>

----------------------------------------------------------------------------
(* The refreshing slot *)

\* C37: this.refreshing is non-null exactly while a token exchange is in
\* flight.  The slot names a process iff that process has an exchange that
\* its finally block has not run for; whenever no continuation is pending
\* (a new call or a response can come in) the slot is set iff an exchange
\* is awaiting its response or its failure delay; with no exchange left a
\* call of refreshTokenPair would start its own exchange; and a caller
\* resumed from a failed exchange ends its call without a credential and
\* without starting another exchange.
C37_RefreshingSlot ==
  /\ [](\A p \in Procs : (auth.refreshing = p) <=> (exch[p].stage # "none"))
  /\ [](ready = {} => ((auth.refreshing # NoProc) <=> (InFlight # {})))
  /\ []((ready = {} /\ InFlight = {})
          => \A p \in Procs :
               LET r == refreshTokenPair(p, TRUE, auth, exch)
               IN r.aw = p /\ r.auth.refreshing = p /\ r.exch[p].stage = "fetch")
  /\ [][\A p \in Procs :
          (p \in ready /\ resume[p] = "err" /\ p \notin ready')
            => /\ pc'[p] = "idle"
               /\ handed' = NoHdr
               /\ awaiting'[p] = NoProc
               /\ exch'[p].stage = "none"
               /\ auth'.refreshing = NoProc]_vars

\* An exchange failed, its initiator has cleared the slot, and the caller
\* that had joined it is about to resume with the failure.
C37_Witness ==
  \E p, q \in Procs :
    /\ p # q
    /\ q \in ready
    /\ p \notin ready
    /\ awaiting[q] = p
    /\ resume[q] = "err"
    /\ exch[p].stage = "none"
    /\ auth.refreshing = NoProc

----------------------------------------------------------------------------
(* The access token supplied at construction *)

\* options.accessToken as the model numbers it: tokens issued by the token
\* endpoint are 2, 3, ...
ConstructorToken == 1

\* C38: an access token supplied at construction has no known expiry.
\* While it is cached the expiry is null and every call of
\* getAuthorizationHeader returns it at once, however much time has passed
\* and whether or not an exchange is in flight; the only call that starts
\* an exchange then is handleUnauthorized; and an exchange started by the
\* expiry check of getAuthorizationHeader (a proactive refresh) is started
\* only after a refresh response has reported a lifetime.
C38_ConstructorToken ==
  /\ [](auth.accessToken = ConstructorToken
          => /\ auth.tokenExpiresAt = NULL
             /\ tokMeta.lifetime = NoLifetime
             /\ \A p \in Procs :
                  LET g == getAuthorizationHeader(p, auth, exch)
                  IN g.done /\ g.tok = ConstructorToken /\ g.auth = auth /\ g.exch = exch)
  /\ [](handed.tok = ConstructorToken => ~handed.known /\ ~handed.fresh)
  /\ [][(auth.accessToken = ConstructorToken /\ auth.refreshing = NoProc
           /\ auth'.refreshing # NoProc)
          => pc'[auth'.refreshing] = "hu"]_vars
  /\ [][(auth.refreshing = NoProc /\ auth'.refreshing # NoProc
           /\ pc'[auth'.refreshing] = "gah1")
          => (tokMeta.lifetime # NoLifetime /\ issued > 1)]_vars

\* The constructor token is handed out after all the time of the model has
\* passed, while an exchange forced by a 401 of another caller is in flight.
C38_Witness ==
  /\ handed.tok = ConstructorToken
  /\ now = StartNow + MaxTicks * TickMs
  /\ auth.refreshing # NoProc
  /\ auth.refreshing # handed.p
  /\ exch[auth.refreshing].force

----------------------------------------------------------------------------
(* Failure of a page *)

\* C39: getAll is all-or-nothing.  A call that ended in an error threw the
\* error and returned no result: no records, no request ids, no status,
\* whatever pages had been served before; for a terminal HTTP error the
\* error carries that status, for a success response whose body is not a
\* JSON array it has code UNKNOWN.  A call returns a result only when its
\* last response was a success and the page it carried had no next
\* relation, and then the result holds the records of all pages served.
\* While the call runs nothing is returned.
C39_AllOrNothing ==
  /\ pc[Client] = "failed"
       => /\ out.t = "err"
          /\ out.data = <<>>
          /\ out.requestIds = <<>>
          /\ out.status = NULL
          /\ (cl.resp.status # NULL /\ ~ResponseOk(cl.resp.status) /\ out.app)
               => out.canvasStatus = cl.resp.status
          /\ (cl.resp.status # NULL /\ ResponseOk(cl.resp.status))
               => (out.app /\ out.code = "UNKNOWN")
  /\ pc[Client] = "done"
       => /\ out.t = "ok"
          /\ ResponseOk(cl.resp.status)
          /\ gh.served # <<>>
          /\ gh.served[Len(gh.served)].next = NULL
          /\ out.data = Concat(ServedRecords)
  /\ pc[Client] \notin {"done", "failed"} => out = NoOut

\* Page 1 was served with its records, page 2 came with a success status
\* and a body that is not an array: the call threw UNKNOWN and returned
\* nothing.
C39_Witness ==
  /\ pc[Client] = "failed"
  /\ Len(gh.served) = 1
  /\ cl.results # <<>>
  /\ cl.nextUrl = 2
  /\ ResponseOk(cl.resp.status)
  /\ out.code = "UNKNOWN"
  /\ out.data = <<>>

----------------------------------------------------------------------------
(* The session map of the HTTP server *)

\* the request carries the configured bearer token
Authorized(r) == IsBearer(r.header) /\ TokenOf(r.header) = MCP_BEARER

\* C40: a POST /messages is handed to a transport only if its sessionId is
\* registered at that moment; an authorized POST without sessionId is
\* answered 400 and one with an id that is not registered (never created,
\* or closed) 404; a session is registered when its /mcp connection is
\* accepted and removed when its transport closes; and no entry is
\* registered for a transport that failed to connect.
C40_SessionMap ==
  /\ [][srv'.handled = srv.handled + 1 =>
         LET r == srv'.last
         IN /\ srv'.dispatched # srv.dispatched
                 => /\ r.route = "/messages"
                    /\ Authorized(r)
                    /\ r.sessionId \in srv.sessions
                    /\ srv'.dispatched = srv.dispatched + 1
            /\ (r.route = "/messages" /\ Authorized(r) /\ r.sessionId = NULL)
                 => r.status = 400
            /\ (r.route = "/messages" /\ Authorized(r) /\ r.sessionId # NULL
                  /\ r.sessionId \notin srv.sessions)
                 => r.status = 404
            /\ r.route = "/messages" => srv'.sessions = srv.sessions
            /\ (r.route = "/mcp" /\ r.status = 200)
                 => /\ srv'.created = srv.created + 1
                    /\ srv'.sessions = srv.sessions \cup {srv'.created}
            /\ (r.route = "/mcp" /\ r.status # 200)
                 => srv'.sessions = srv.sessions]_vars
  /\ [][(srv'.handled = srv.handled /\ srv' # srv)
          => \E sessionId \in srv.sessions :
               srv' = [srv EXCEPT !.sessions = @ \ {sessionId}]]_vars
  /\ [](srv.sessions \subseteq 1..srv.created)

TypeOK ==
  /\ kind \in {"pat", "oauth"}
  /\ auth.refreshing \in Procs \cup {NoProc}
  /\ ready \subseteq Procs
  /\ cl.attempt \in 0..maxRetries

====
